---- MODULE Spec2Model ----
(***************************************************************************)
(* Model of the SM2 key / signature codec and of the class SM2Multikey of  *)
(* Instun/sm2-multikey.                                                    *)
(*                                                                         *)
(* Buffers are sequences of bytes (0..255); index i of a JavaScript buffer *)
(* is element i+1 of the sequence.  A call either returns a value or       *)
(* throws: a result is a record [ok, code, val], where code is the         *)
(* ErrorCodes member passed to the thrown FormatError.  Arguments are      *)
(* always Buffers, so the typeof / isValidBinaryData guards never fire and *)
(* toBuffer / matchBinaryType return their data argument.                  *)
(***************************************************************************)
EXTENDS Integers, Sequences, FiniteSets, TLC

VARIABLES pc, arg, mid, res, cryptoImpl, lastSet, instance

vars == <<pc, arg, mid, res, cryptoImpl, lastSet, instance>>

(***************************************************************************)
(* Results and buffer helpers                                              *)
(***************************************************************************)
Ok(v) == [ok |-> TRUE, code |-> "", val |-> v]

\* the members of the ErrorCodes object
ErrorCodeNames ==
  {"ERR_ARGUMENT_INVALID", "ERR_ARGUMENT_MISSING",
   "ERR_FORMAT_INVALID", "ERR_FORMAT_INPUT", "ERR_FORMAT_TYPE", "ERR_FORMAT_LENGTH",
   "ERR_FORMAT_VALUE", "ERR_FORMAT_OID", "ERR_FORMAT_ENCODE", "ERR_FORMAT_MULTIKEY",
   "ERR_FORMAT_MULTIBASE",
   "ERR_KEY_INVALID", "ERR_KEY_NOT_FOUND", "ERR_KEY_PAIR", "ERR_KEY_FORMAT",
   "ERR_KEY_GENERATION", "ERR_SIGNATURE_INVALID", "ERR_VERIFICATION_FAILED",
   "ERR_IMPORT_FAILED", "ERR_EXPORT_FAILED", "ERR_OPERATION_INVALID"}

\* ErrorCodes.member: the member's string, or undefined when the object has
\* no such member
ErrorCodes(member) == IF member \in ErrorCodeNames THEN member ELSE "undefined"

\* throw new FormatError(message, { code: ErrorCodes.c }): the constructor
\* spreads the options over its default, so the error carries options.code
\* even when that is undefined
Err(c) == [ok |-> FALSE, code |-> ErrorCodes(c), val |-> <<>>]

None == [ok |-> FALSE, code |-> "none", val |-> <<>>]

Min(a, b) == IF a < b THEN a ELSE b

Max(a, b) == IF a > b THEN a ELSE b

\* buf[i] of JavaScript: the byte, or undefined (-1) outside the buffer
At(buf, i) == IF i >= 0 /\ i < Len(buf) THEN buf[i + 1] ELSE -1

\* buf.subarray(start, end): both ends are clamped to the buffer
subarray(buf, start, end) == SubSeq(buf, Min(start, Len(buf)) + 1, Min(end, Len(buf)))

\* Buffer.alloc(n, b)
alloc(n, b) == [i \in 1..n |-> b]

(***************************************************************************)
(* DER/ASN.1 engine                                                        *)
(***************************************************************************)
ASN1_SEQUENCE == 48

ASN1_INTEGER == 2

ASN1_OCTET_STRING == 4

ASN1_OBJECT_IDENTIFIER == 6

ASN1_BIT_STRING == 3

\* 0x7fffffff
INT32_MAX == 2147483647

\* (v << 8) of JavaScript: the operand is an int32, the result is the low
\* 32 bits of v * 256 read as a signed int32.
Shl8(v) ==
  LET low24 == v % 16777216
  IN  IF low24 >= 8388608 THEN (low24 - 16777216) * 256 ELSE low24 * 256

\* the for loop of readDERLength without the test for a non-minimal long form
RECURSIVE readDERLengthLoopNoMinimal(_, _, _, _, _)
readDERLengthLoopNoMinimal(buffer, offset, i, lenBytes, length) ==
  IF i >= lenBytes
  THEN Ok(<<length, offset>>)
  ELSE LET next == Shl8(length) + buffer[offset + 1]
       IN  IF next > INT32_MAX
           THEN Err("ERR_FORMAT_LENGTH")
           ELSE readDERLengthLoopNoMinimal(buffer, offset + 1, i + 1, lenBytes, next)

\* the for loop of readDERLength: i counts the length bytes consumed
RECURSIVE readDERLengthLoop(_, _, _, _, _)
readDERLengthLoop(buffer, offset, i, lenBytes, length) ==
  IF i >= lenBytes
  THEN IF length <= 127 THEN Err("ERR_FORMAT_INVALID") ELSE Ok(<<length, offset>>)
  ELSE LET next == Shl8(length) + buffer[offset + 1]
       IN  IF next > INT32_MAX
           THEN Err("ERR_FORMAT_LENGTH")
           ELSE readDERLengthLoop(buffer, offset + 1, i + 1, lenBytes, next)

readDERLength(data, offset) ==
  IF offset < 0 THEN Err("ERR_FORMAT_INPUT")
  ELSE IF offset >= Len(data) THEN Err("ERR_FORMAT_LENGTH")
  ELSE LET firstByte == data[offset + 1]
           lenBytes == firstByte % 128
       IN  IF firstByte < 128 THEN Ok(<<firstByte, offset + 1>>)
           ELSE IF lenBytes = 0 \/ offset + 1 + lenBytes > Len(data)
                THEN Err("ERR_FORMAT_INVALID")
                ELSE readDERLengthLoop(data, offset + 1, 0, lenBytes, 0)

\* the while loop of encodeDERLength: bytes.unshift(temp & 0xff); temp >>= 8
RECURSIVE encodeDERLengthLoop(_, _)
encodeDERLengthLoop(temp, bytes) ==
  IF temp > 0
  THEN encodeDERLengthLoop(temp \div 256, <<temp % 256>> \o bytes)
  ELSE bytes

\* encodeDERLength with the short form taken for 128 as well
encodeDERLengthShort128(length) ==
  IF length < 0 \/ length > INT32_MAX THEN Err("ERR_FORMAT_INPUT")
  ELSE IF length <= 128 THEN Ok(<<length>>)
  ELSE LET bytes == encodeDERLengthLoop(length, <<>>)
       IN  Ok(<<128 + Len(bytes)>> \o bytes)

encodeDERLength(length) ==
  IF length < 0 \/ length > INT32_MAX THEN Err("ERR_FORMAT_INPUT")
  ELSE IF length < 128 THEN Ok(<<length>>)
  ELSE LET bytes == encodeDERLengthLoop(length, <<>>)
       IN  Ok(<<128 + Len(bytes)>> \o bytes)

(***************************************************************************)
(* Signature codec                                                         *)
(***************************************************************************)
\* source.copy(target, targetStart, sourceStart): the bytes that fit are
\* copied, the rest of the source is dropped; the new target is returned
copy(source, target, targetStart, sourceStart) ==
  LET n == Max(0, Min(Len(source) - sourceStart, Len(target) - targetStart))
  IN  [i \in 1..Len(target) |->
         IF i > targetStart /\ i <= targetStart + n
         THEN source[sourceStart + (i - targetStart)]
         ELSE target[i]]

\* while (start < limit && buf[start] === 0) start++
RECURSIVE skipLeadingZeros(_, _, _)
skipLeadingZeros(buf, start, limit) ==
  IF start < limit /\ At(buf, start) = 0
  THEN skipLeadingZeros(buf, start + 1, limit)
  ELSE start

\* signatureToDERActual without the guard byte
signatureToDERActualNoGuard(r) ==
  LET rStart == skipLeadingZeros(r, 0, 31)
  IN  copy(r, alloc(32 - rStart, 0), 0, rStart)

\* one half of signatureToDER: the minimal positive INTEGER content of a
\* 32-byte scalar, then its TLV
signatureToDERActual(r) ==
  LET rStart == skipLeadingZeros(r, 0, 31)
      rPad == IF At(r, rStart) >= 128 THEN 1 ELSE 0
  IN  copy(r, alloc(32 - rStart + rPad, 0), rPad, rStart)

signatureToDERElement(r) ==
  LET rActual == signatureToDERActual(r)
  IN  <<ASN1_INTEGER>> \o encodeDERLength(Len(rActual)).val \o rActual

signatureToDER(rawSignature) ==
  IF Len(rawSignature) # 64 THEN Err("ERR_FORMAT_INPUT")
  ELSE LET r == subarray(rawSignature, 0, 32)
           s == subarray(rawSignature, 32, 64)
           sequence == signatureToDERElement(r) \o signatureToDERElement(s)
       IN  Ok(<<ASN1_SEQUENCE>> \o encodeDERLength(Len(sequence)).val \o sequence)

\* extractSignatureRSPadded without the skipping of leading zero bytes
extractSignatureRSPaddedNoSkip(r) ==
  copy(r, alloc(32, 0), Max(0, 32 - Len(r)), 0)

\* one half of extractSignatureRS: the INTEGER content zero-extended into a
\* 32-byte field
extractSignatureRSPadded(r) ==
  LET rSrc == skipLeadingZeros(r, 0, Len(r) - 1)
      rActualLength == Len(r) - rSrc
      rDestOffset == Max(0, 32 - rActualLength)
  IN  copy(r, alloc(32, 0), rDestOffset, rSrc)

extractSignatureRS(sigBuf) ==
  IF At(sigBuf, 0) # ASN1_SEQUENCE THEN Err("ERR_FORMAT_INVALID")
  ELSE LET seqLen == readDERLength(sigBuf, 1)
       IN
    IF ~seqLen.ok THEN seqLen
    ELSE IF At(sigBuf, seqLen.val[2]) # ASN1_INTEGER THEN Err("ERR_FORMAT_INVALID")
    ELSE LET rLen == readDERLength(sigBuf, seqLen.val[2] + 1)
         IN
      IF ~rLen.ok THEN rLen
      ELSE LET rLength == rLen.val[1]
               rOffset == rLen.val[2]
               r == subarray(sigBuf, rOffset, rOffset + rLength)
               offset == rOffset + rLength
           IN
        IF At(sigBuf, offset) # ASN1_INTEGER THEN Err("ERR_FORMAT_INVALID")
        ELSE LET sLen == readDERLength(sigBuf, offset + 1)
             IN
          IF ~sLen.ok THEN sLen
          ELSE LET sLength == sLen.val[1]
                   sOffset == sLen.val[2]
                   s == subarray(sigBuf, sOffset, sOffset + sLength)
               IN  Ok(extractSignatureRSPadded(r) \o extractSignatureRSPadded(s))

(***************************************************************************)
(* SM2 key DER layer                                                       *)
(***************************************************************************)
\* 2A 86 48 CE 3D 02 01
EC_OID == <<42, 134, 72, 206, 61, 2, 1>>

\* 2A 81 1C CF 55 01 82 2D
SM2_OID == <<42, 129, 28, 207, 85, 1, 130, 45>>

\* 3059301306072a8648ce3d020106082a811ccf5501822d034200
DER_PUBLIC_KEY_PREFIX ==
  <<48, 89, 48, 19, 6, 7, 42, 134, 72, 206, 61, 2, 1,
    6, 8, 42, 129, 28, 207, 85, 1, 130, 45, 3, 66, 0>>

\* 308187020100301306072a8648ce3d020106082a811ccf5501822d046d306b0201010420
DER_PRIVATE_KEY_PREFIX ==
  <<48, 129, 135, 2, 1, 0, 48, 19, 6, 7, 42, 134, 72,
    206, 61, 2, 1, 6, 8, 42, 129, 28, 207, 85, 1, 130,
    45, 4, 109, 48, 107, 2, 1, 1, 4, 32>>

\* a144034200
DER_PRIVATE_KEY_SUFFIX == <<161, 68, 3, 66, 0>>

\* parsePublicKeyDERPoint without the skip of the unused-bits byte
parsePublicKeyDERPointNoSkip(der, offset) ==
  LET coordLength == 32
  IN  IF offset + coordLength * 2 + 1 > Len(der) THEN Err("ERR_FORMAT_LENGTH")
      ELSE IF At(der, offset) # 4 THEN Err("ERR_FORMAT_INVALID")
      ELSE Ok(subarray(der, offset + 1, offset + 1 + coordLength)
              \o subarray(der, offset + 1 + coordLength, offset + 1 + coordLength * 2))

\* parsePublicKeyDER is split at its steps; each part takes the offset the
\* code has reached.  This part starts at the unused-bits byte.
parsePublicKeyDERPoint(der, offset0) ==
  LET offset == offset0 + 1
      coordLength == 32
  IN  IF offset + coordLength * 2 + 1 > Len(der) THEN Err("ERR_FORMAT_LENGTH")
      ELSE IF At(der, offset) # 4 THEN Err("ERR_FORMAT_INVALID")
      ELSE Ok(subarray(der, offset + 1, offset + 1 + coordLength)
              \o subarray(der, offset + 1 + coordLength, offset + 1 + coordLength * 2))

parsePublicKeyDERBitString(der, offset) ==
  IF At(der, offset) # ASN1_BIT_STRING THEN Err("ERR_FORMAT_INVALID")
  ELSE LET l == readDERLength(der, offset + 1)
       IN  IF ~l.ok THEN l ELSE parsePublicKeyDERPoint(der, l.val[2])

parsePublicKeyDERSM2OID(der, offset) ==
  IF At(der, offset) # ASN1_OBJECT_IDENTIFIER THEN Err("ERR_FORMAT_INVALID")
  ELSE LET l == readDERLength(der, offset + 1)
       IN  IF ~l.ok THEN l
           ELSE IF l.val[2] + Len(SM2_OID) > Len(der)
                   \/ subarray(der, l.val[2], l.val[2] + Len(SM2_OID)) # SM2_OID
                THEN Err("ERR_FORMAT_OID")
                ELSE parsePublicKeyDERBitString(der, l.val[2] + Len(SM2_OID))

parsePublicKeyDERECOID(der, offset) ==
  IF At(der, offset) # ASN1_OBJECT_IDENTIFIER THEN Err("ERR_FORMAT_INVALID")
  ELSE LET l == readDERLength(der, offset + 1)
       IN  IF ~l.ok THEN l
           ELSE IF l.val[2] + Len(EC_OID) > Len(der)
                   \/ subarray(der, l.val[2], l.val[2] + Len(EC_OID)) # EC_OID
                THEN Err("ERR_FORMAT_OID")
                ELSE parsePublicKeyDERSM2OID(der, l.val[2] + Len(EC_OID))

parsePublicKeyDER(der) ==
  IF At(der, 0) # ASN1_SEQUENCE THEN Err("ERR_FORMAT_INVALID")
  ELSE LET outer == readDERLength(der, 1)
       IN
    IF ~outer.ok THEN outer
    ELSE IF At(der, outer.val[2]) # ASN1_SEQUENCE THEN Err("ERR_FORMAT_INVALID")
    ELSE LET alg == readDERLength(der, outer.val[2] + 1)
         IN  IF ~alg.ok THEN alg ELSE parsePublicKeyDERECOID(der, alg.val[2])

(***************************************************************************)
(* Point validation and compression                                        *)
(***************************************************************************)
\* the for loop of validatePublicKeyCoordinates: TRUE when x[i] and y[i]
\* are 0 for every i in 0..31
isZeroPair(x, y) == \A i \in 0..31 : ~(At(x, i) # 0 \/ At(y, i) # 0)

\* validatePublicKeyCoordinates without the test for the all-zero pair
validatePublicKeyCoordinatesNoZeroTest(x, y) ==
  IF Len(x) # 32 \/ Len(y) # 32 THEN Err("ERR_FORMAT_LENGTH")
  ELSE Ok(<<>>)

validatePublicKeyCoordinates(x, y) ==
  IF Len(x) # 32 \/ Len(y) # 32 THEN Err("ERR_FORMAT_LENGTH")
  ELSE IF isZeroPair(x, y) THEN Err("ERR_FORMAT_VALUE")
  ELSE Ok(<<>>)

publicKeyToDER(x, y) ==
  LET v == validatePublicKeyCoordinates(x, y)
  IN  IF ~v.ok THEN v
      ELSE LET uncompressedPoint == <<4>> \o x \o y
           IN  Ok(DER_PUBLIC_KEY_PREFIX \o uncompressedPoint)

\* secretKeyToDER without the 0x04 marker of the uncompressed point
secretKeyToDERNoMarker(d, x, y) ==
  IF Len(d) # 32 THEN Err("ERR_FORMAT_LENGTH")
  ELSE LET v == validatePublicKeyCoordinates(x, y)
       IN  IF ~v.ok THEN v
           ELSE Ok(DER_PRIVATE_KEY_PREFIX \o d \o DER_PRIVATE_KEY_SUFFIX \o x \o y)

secretKeyToDER(d, x, y) ==
  IF Len(d) # 32 THEN Err("ERR_FORMAT_LENGTH")
  ELSE LET v == validatePublicKeyCoordinates(x, y)
       IN  IF ~v.ok THEN v
           ELSE LET uncompressedPoint == <<4>> \o x \o y
                IN  Ok(DER_PRIVATE_KEY_PREFIX \o d \o DER_PRIVATE_KEY_SUFFIX
                       \o uncompressedPoint)

\* The steps of extractSecretKeyD.  Each takes the result r of the step
\* before it, whose val[2] is the offset reached, and passes an error on.
\* if (der[offset++] !== tag) throw ...; [, offset] = readDERLength(der, offset)
\* after `skip` bytes have been skipped (offset++ over a version value)
expectTag(r, der, tag, skip) ==
  IF ~r.ok THEN r
  ELSE IF At(der, r.val[2] + skip) # tag THEN Err("ERR_FORMAT_INVALID")
  ELSE readDERLength(der, r.val[2] + skip + 1)

\* the comparison with an OID constant, then offset += its length
expectOID(r, der, oid) ==
  IF ~r.ok THEN r
  ELSE IF r.val[2] + Len(oid) > Len(der)
          \/ subarray(der, r.val[2], r.val[2] + Len(oid)) # oid
       THEN Err("ERR_FORMAT_OID")
       ELSE Ok(<<Len(oid), r.val[2] + Len(oid)>>)

\* the steps of extractSecretKeyD up to the header of the private key
\* OCTET STRING: its declared length and the offset of its content
extractSecretKeyDKey(der) ==
  LET outer == expectTag(Ok(<<0, 0>>), der, ASN1_SEQUENCE, 0)
      version == expectTag(outer, der, ASN1_INTEGER, 0)
      algorithm == expectTag(version, der, ASN1_SEQUENCE, 1)
      ecTag == expectTag(algorithm, der, ASN1_OBJECT_IDENTIFIER, 0)
      ecOID == expectOID(ecTag, der, EC_OID)
      sm2Tag == expectTag(ecOID, der, ASN1_OBJECT_IDENTIFIER, 0)
      sm2OID == expectOID(sm2Tag, der, SM2_OID)
      octets == expectTag(sm2OID, der, ASN1_OCTET_STRING, 0)
      inner == expectTag(octets, der, ASN1_SEQUENCE, 0)
      innerVersion == expectTag(inner, der, ASN1_INTEGER, 0)
  IN  expectTag(innerVersion, der, ASN1_OCTET_STRING, 1)

extractSecretKeyD(der) ==
  LET key == extractSecretKeyDKey(der)
  IN  IF ~key.ok THEN key
      ELSE IF key.val[1] # 32 THEN Err("ERR_FORMAT_LENGTH")
      ELSE Ok(subarray(der, key.val[2], key.val[2] + key.val[1]))

(***************************************************************************)
(* Math utilities (BigInt arithmetic)                                      *)
(***************************************************************************)
\* the value null returned by modularSquareRoot; roots are in 0..p-1
null == -1

\* a % m of JavaScript BigInt: the sign of the result is that of a
rem(a, m) == IF a >= 0 THEN a % m ELSE 0 - ((0 - a) % m)

\* the while loop of powerMod
RECURSIVE powerModLoop(_, _, _, _)
powerModLoop(result, base, exponent, modulus) ==
  IF exponent > 0
  THEN powerModLoop(IF exponent % 2 = 1 THEN rem(result * base, modulus) ELSE result,
                    rem(base * base, modulus), exponent \div 2, modulus)
  ELSE result

powerMod(base, exponent, modulus) ==
  IF modulus <= 0 THEN Err("ERR_FORMAT_INPUT")
  ELSE IF exponent < 0 THEN Err("ERR_FORMAT_INPUT")
  ELSE IF modulus = 1 THEN Ok(0)
  ELSE Ok(powerModLoop(1, rem(base, modulus), exponent, modulus))

\* while ((q & 1) === 0) { s++; q >>= 1 }: the pair <<q, s>> at the end
RECURSIVE factorTwos(_, _)
factorTwos(q, s) ==
  IF q % 2 = 0 THEN factorTwos(q \div 2, s + 1) ELSE <<q, s>>

\* while (powerMod(z, (p - 1) / 2, p) === 1) z++
RECURSIVE findNonResidue(_, _)
findNonResidue(z, p) ==
  IF powerMod(z, (p - 1) \div 2, p).val = 1 THEN findNonResidue(z + 1, p) ELSE z

\* the inner while loop of the Tonelli-Shanks loop: the final i
RECURSIVE leastOrder(_, _, _, _)
leastOrder(temp, i, m, p) ==
  IF temp # 1 /\ i < m THEN leastOrder(rem(temp * temp, p), i + 1, m, p) ELSE i

\* the Tonelli-Shanks loop with b = c^(2^(m-i)) in place of c^(2^(m-i-1))
RECURSIVE tonelliLoopWrongPower(_, _, _, _, _)
tonelliLoopWrongPower(c, r, t, m, p) ==
  IF t = 1 THEN r
  ELSE LET i == leastOrder(t, 0, m, p)
       IN  IF i = m THEN null
           ELSE LET b == powerMod(c, powerMod(2, m - i, p - 1).val, p).val
                    bb == rem(b * b, p)
                IN  tonelliLoopWrongPower(bb, rem(r * b, p), rem(t * bb, p), i, p)

\* the Tonelli-Shanks loop: while (t !== 1) { ... }
RECURSIVE tonelliLoop(_, _, _, _, _)
tonelliLoop(c, r, t, m, p) ==
  IF t = 1 THEN r
  ELSE LET i == leastOrder(t, 0, m, p)
       IN  IF i = m THEN null
           ELSE LET b == powerMod(c, powerMod(2, m - i - 1, p - 1).val, p).val
                    bb == rem(b * b, p)
                IN  tonelliLoop(bb, rem(r * b, p), rem(t * bb, p), i, p)

modularSquareRoot(a, p) ==
  IF p <= 2 THEN Err("ERR_FORMAT_INPUT")
  ELSE IF a < 0 \/ a >= p THEN Err("ERR_FORMAT_INPUT")
  ELSE IF a = 0 THEN Ok(0)
  ELSE IF powerMod(a, (p - 1) \div 2, p).val # 1 THEN Ok(null)
  ELSE LET qs == factorTwos(p - 1, 0)
           q == qs[1]
           s == qs[2]
       IN  IF s = 1 THEN powerMod(a, (p + 1) \div 4, p)
           ELSE LET z == findNonResidue(2, p)
                    c == powerMod(z, q, p).val
                    r == powerMod(a, (q + 1) \div 2, p).val
                    t == powerMod(a, q, p).val
                IN  Ok(tonelliLoop(c, r, t, s, p))

(***************************************************************************)
(* Curve parameters.  The SM2 field prime has 256 bits and the model       *)
(* checker's integers have 32, so the field is scaled down: P is a prime   *)
(* with P = 3 (mod 4) like the SM2 prime, A = P - 3 as in SM2, B makes the *)
(* curve non-singular with a prime number of points (271) as in SM2, and   *)
(* the hard-coded y of uncompressPublicKey is a fixed even value below P   *)
(* (the low byte, 0xc4, of the source's constant).  Coordinates stay 32    *)
(* bytes wide, big-endian.                                                 *)
(***************************************************************************)
P == 263

A == P - 3

B == 13

yHex == 196

\* BigInt values at or above BigIntCap are all represented by BigIntCap:
\* they are only ever compared with P, which is below it
BigIntCap == 65536

\* BigInt('0x' + buf.toString('hex'))
RECURSIVE bigIntOf(_, _, _)
bigIntOf(buf, i, acc) ==
  IF i >= Len(buf) THEN acc
  ELSE bigIntOf(buf, i + 1, Min(BigIntCap, acc * 256 + buf[i + 1]))

\* Buffer.from(v.toString(16).padStart(2 * n, '0'), 'hex') for v < 256^n
RECURSIVE bigIntToBuffer(_, _)
bigIntToBuffer(v, n) ==
  IF n = 0 THEN <<>> ELSE bigIntToBuffer(v \div 256, n - 1) \o <<v % 256>>

\* the prefix of compressPublicKey with the two values exchanged
compressPublicKeyPrefixSwapped(yInt) == IF yInt % 2 = 0 THEN 3 ELSE 2

\* const prefix = (yInt % 2n === 0n) ? 0x02 : 0x03
compressPublicKeyPrefix(yInt) == IF yInt % 2 = 0 THEN 2 ELSE 3

compressPublicKey(publicKey) ==
  IF Len(publicKey) # 64 THEN Err("ERR_FORMAT_LENGTH")
  ELSE LET x == subarray(publicKey, 0, 32)
           y == subarray(publicKey, 32, 64)
           xInt == bigIntOf(x, 0, 0)
           yInt == bigIntOf(y, 0, 0)
           prefix == compressPublicKeyPrefix(yInt)
       IN  IF xInt >= P \/ yInt >= P THEN Err("ERR_FORMAT_INPUT")
           ELSE Ok(<<prefix>> \o x)

\* the y coordinate uncompressPublicKey continues with after the square
\* root: the root, or the hard-coded value when there is none
uncompressPublicKeyRoot(ySquared) ==
  LET y == modularSquareRoot(ySquared, P).val
  IN  IF y = null THEN yHex ELSE y

\* the selection of y without the change to P - y
uncompressPublicKeySelectNoFlip(y0, prefix) == y0

\* the selection of y that always changes to P - y
uncompressPublicKeySelectAlwaysFlip(y0, prefix) == rem(P - y0, P)

\* if ((y % 2n === 0n) !== (prefix === 0x02)) y = (P - y) % P
uncompressPublicKeySelect(y0, prefix) ==
  IF (y0 % 2 = 0) # (prefix = 2) THEN rem(P - y0, P) ELSE y0

uncompressPublicKey(compressedKey) ==
  IF Len(compressedKey) # 33 THEN Err("ERR_FORMAT_LENGTH")
  ELSE LET prefix == compressedKey[1]
           x == subarray(compressedKey, 1, Len(compressedKey))
           xInt == bigIntOf(x, 0, 0)
       IN
    IF prefix # 2 /\ prefix # 3 THEN Err("ERR_FORMAT_PREFIX")
    ELSE IF xInt >= P THEN Err("ERR_FORMAT_INPUT")
    ELSE LET xSquared == rem(xInt * xInt, P)
             xCubed == rem(xSquared * xInt, P)
             ax == rem(A * xInt, P)
             ySquared == rem(xCubed + ax + B, P)
             y0 == uncompressPublicKeyRoot(ySquared)
             y == uncompressPublicKeySelect(y0, prefix)
         IN  Ok(x \o bigIntToBuffer(y, 32))

(***************************************************************************)
(* Multibase / multicodec key encoding.  A string is the sequence of its   *)
(* character codes.                                                        *)
(***************************************************************************)
\* a property or variable that holds no value (undefined or null)
undefined == <<null>>

\* 'z'
MULTIBASE_BASE58BTC_HEADER == <<122>>

MULTICODEC_SM2_PUB_HEADER == <<134, 36>>

MULTICODEC_SM2_PRIV_HEADER == <<135, 36>>

\* 123456789ABCDEFGHJKLMNPQRSTUVWXYZabcdefghijkmnopqrstuvwxyz
base58Alphabet ==
  <<49, 50, 51, 52, 53, 54, 55, 56, 57, 65, 66, 67, 68, 69, 70, 71, 72, 74, 75,
    76, 77, 78, 80, 81, 82, 83, 84, 85, 86, 87, 88, 89, 90, 97, 98, 99, 100,
    101, 102, 103, 104, 105, 106, 107, 109, 110, 111, 112, 113, 114, 115, 116,
    117, 118, 119, 120, 121, 122>>

\* the number of leading digits of ds that equal zero
RECURSIVE leadingZeros(_, _)
leadingZeros(ds, i) ==
  IF i < Len(ds) /\ ds[i + 1] = 0 THEN leadingZeros(ds, i + 1) ELSE i

\* long division of the number ds (digits in base `from`, most significant
\* first) by `to`: the digits of the quotient followed by the remainder
RECURSIVE longDivide(_, _, _, _, _)
longDivide(ds, i, carry, from, to) ==
  IF i > Len(ds) THEN <<carry>>
  ELSE LET acc == carry * from + ds[i]
       IN  <<acc \div to>> \o longDivide(ds, i + 1, acc % to, from, to)

\* the digits in base `to` of the number ds, without leading zeros
RECURSIVE baseDigits(_, _, _)
baseDigits(ds, from, to) ==
  LET significant58 == SubSeq(ds, leadingZeros(ds, 0) + 1, Len(ds))
  IN  IF significant58 = <<>> THEN <<>>
      ELSE LET qr == longDivide(significant58, 1, 0, from, to)
           IN  baseDigits(SubSeq(qr, 1, Len(qr) - 1), from, to) \o <<qr[Len(qr)]>>

\* base58btc.encode(data): 'z', one '1' for every leading zero byte, then
\* the base-58 digits of the rest
base58btcEncode(data) ==
  LET zeros == leadingZeros(data, 0)
      digits == baseDigits(data, 256, 58)
  IN  MULTIBASE_BASE58BTC_HEADER \o [i \in 1..zeros |-> base58Alphabet[1]]
        \o [i \in 1..Len(digits) |-> base58Alphabet[digits[i] + 1]]

\* the value of a base-58 character, -1 for a character outside the alphabet
base58Value(c) ==
  IF \E v \in 1..58 : base58Alphabet[v] = c
  THEN (CHOOSE v \in 1..58 : base58Alphabet[v] = c) - 1
  ELSE -1

\* base58btc.decode(encoded): throws (a plain Error) for a string without
\* the 'z' prefix or with a character outside the alphabet
base58btcDecode(encoded) ==
  IF encoded = <<>> \/ encoded[1] # MULTIBASE_BASE58BTC_HEADER[1] THEN Err("Error")
  ELSE LET values == [i \in 1..(Len(encoded) - 1) |-> base58Value(encoded[i + 1])]
           zeros == leadingZeros(values, 0)
       IN  IF \E i \in 1..Len(values) : values[i] < 0 THEN Err("Error")
           ELSE Ok(alloc(zeros, 0) \o baseDigits(values, 58, 256))

\* encodeKey(prefix, key); a key that holds no value is not binary data
encodeKey(prefix, key) ==
  IF key = undefined THEN Err("ERR_ARGUMENT_INVALID")
  ELSE Ok(base58btcEncode(prefix \o key))

\* decodeKey returning the decoded bytes with the multicodec header left on
decodeKeyKeepPrefix(encoded) ==
  LET data == base58btcDecode(encoded)
  IN  IF ~data.ok THEN Err("ERR_KEY_FORMAT_NEW")
      ELSE Ok([key |-> data.val, prefix |-> subarray(data.val, 0, 2)])

\* decodeKey(encoded) without an output type: the record of key and prefix
decodeKey(encoded) ==
  IF encoded = undefined \/ encoded = <<>> THEN Err("ERR_ARGUMENT_INVALID")
  ELSE IF encoded[1] # MULTIBASE_BASE58BTC_HEADER[1] THEN Err("ERR_KEY_FORMAT_NEW")
  ELSE LET data == base58btcDecode(encoded)
       IN  IF ~data.ok THEN Err("ERR_KEY_FORMAT_NEW")
           ELSE IF Len(data.val) < 2 THEN Err("ERR_KEY_FORMAT_NEW")
           ELSE LET prefix == subarray(data.val, 0, 2)
                    key == subarray(data.val, 2, Len(data.val))
                IN  IF prefix # MULTICODEC_SM2_PUB_HEADER /\ prefix # MULTICODEC_SM2_PRIV_HEADER
                    THEN Err("ERR_KEY_FORMAT_NEW")
                    ELSE Ok([key |-> key, prefix |-> prefix])

(***************************************************************************)
(* base64url and JWK import                                                *)
(***************************************************************************)
\* the six bits of a base64url character (A-Z, a-z, 0-9, '-', '_')
base64Value(c) ==
  IF c >= 65 /\ c <= 90 THEN c - 65
  ELSE IF c >= 97 /\ c <= 122 THEN c - 71
  ELSE IF c >= 48 /\ c <= 57 THEN c + 4
  ELSE IF c = 45 THEN 62
  ELSE 63

\* Buffer.from(str, 'base64url'): four characters give three bytes, a final
\* group of three gives two, of two gives one
RECURSIVE base64Bytes(_, _)
base64Bytes(str, i) ==
  LET v(k) == base64Value(str[i + k])
  IN  IF i + 1 >= Len(str) THEN <<>>
      ELSE IF i + 2 = Len(str) THEN <<v(1) * 4 + v(2) \div 16>>
      ELSE IF i + 3 = Len(str)
           THEN <<v(1) * 4 + v(2) \div 16, (v(2) % 16) * 16 + v(3) \div 4>>
      ELSE <<v(1) * 4 + v(2) \div 16, (v(2) % 16) * 16 + v(3) \div 4,
             (v(3) % 4) * 64 + v(4)>> \o base64Bytes(str, i + 4)

fromBase64Url(str) ==
  IF str = undefined THEN Err("ERR_FORMAT_INPUT") ELSE Ok(base64Bytes(str, 0))

\* an error object: its class name, its code and its message
Throw(name, code, message) ==
  [ok |-> FALSE, code |-> code, val |-> <<>>, name |-> name, message |-> message]

\* a string holds a value and is not empty; an object or buffer holds a value
truthyString(v) == v # undefined /\ v # <<>>

truthyObject(v) == v # undefined

\* typeof v === 'string'; a value of another type (a number) is written as
\* a sequence of one negative element
isString(v) == v # undefined /\ \A i \in 1..Len(v) : v[i] >= 0

\* fromJwk({ jwk, secretKey, id, controller }) of formats/jwk.js
fromJwk(jwk, secretKey, id, controller) ==
  IF ~jwk.isObject THEN Throw("ArgumentError", "ERR_ARGUMENT", "Invalid JWK object")
  ELSE IF jwk.kty # "EC" \/ jwk.crv # "SM2"
       THEN Throw("ArgumentError", "ERR_ARGUMENT", "Invalid key type or curve")
  ELSE IF ~truthyString(jwk.x) \/ ~truthyString(jwk.y)
       THEN Throw("ArgumentError", "ERR_ARGUMENT", "Missing public key coordinates")
  ELSE LET x == fromBase64Url(jwk.x).val
           y == fromBase64Url(jwk.y).val
           d == fromBase64Url(jwk.d).val
       IN  IF Len(x) # 32 \/ Len(y) # 32
           THEN Throw("ArgumentError", "ERR_ARGUMENT", "Invalid coordinate length")
           ELSE IF secretKey /\ truthyString(jwk.d)
                THEN IF Len(d) # 32
                     THEN Throw("ArgumentError", "ERR_ARGUMENT", "Invalid private key length")
                     ELSE Ok([publicKey |-> x \o y, secretKey |-> d,
                              id |-> id, controller |-> controller])
                ELSE Ok([publicKey |-> x \o y, secretKey |-> undefined,
                         id |-> id, controller |-> controller])

(***************************************************************************)
(* The class SM2Multikey and the module variable cryptoImpl                *)
(***************************************************************************)
MULTIKEY_CONTEXT_V1_URL == "https://w3id.org/security/multikey/v1"

ALGORITHM == "SM2"

RequiredMethods == {"generateKey", "createSigner", "createVerifier", "digest"}

\* the implementation the module starts with: every method is
\* no_implementation, which throws
no_implementation ==
  [isObject |-> TRUE, id |-> 0, methods |-> RequiredMethods, throws |-> TRUE,
   keyPair |-> [publicKey |-> undefined, secretKey |-> undefined]]

\* cryptoImpl[method](...): the error of the call, or Ok of the
\* implementation's id
callImpl(impl, method) ==
  IF method \notin impl.methods
  THEN Throw("TypeError", "undefined", "cryptoImpl[method] is not a function")
  ELSE IF impl.throws THEN Throw("Error", "undefined", "No crypto implementation set")
  ELSE Ok(impl.id)

\* new SM2Multikey(): the property publicKeyMultibase is not set
SM2Multikey ==
  [publicKey |-> undefined, secretKey |-> undefined, id |-> undefined,
   controller |-> undefined, publicKeyMultibase |-> undefined,
   secretKeyMultibase |-> undefined]

\* setCryptoImpl accepting only the first implementation it is given
setCryptoImplOnce(impl, current) ==
  IF ~impl.isObject
  THEN [result |-> Throw("ArgumentError", ErrorCodes("ERR_ARGUMENT_INVALID"),
                         "Invalid crypto implementation"),
        cryptoImpl |-> current]
  ELSE [result |-> Ok(<<>>), cryptoImpl |-> IF current.throws THEN impl ELSE current]

\* setCryptoImpl(impl): the outcome of the call and the value of the module
\* variable cryptoImpl after it
setCryptoImpl(impl, current) ==
  IF ~impl.isObject
  THEN [result |-> Throw("ArgumentError", ErrorCodes("ERR_ARGUMENT_INVALID"),
                         "Invalid crypto implementation"),
        cryptoImpl |-> current]
  ELSE [result |-> Ok(<<>>), cryptoImpl |-> impl]

\* `${controller}#${publicKeyMultibase}`; a missing value prints as
\* "undefined"
templateString(v) ==
  IF v = undefined THEN <<117, 110, 100, 101, 102, 105, 110, 101, 100>> ELSE v

derivedId(controller, publicKeyMultibase) ==
  templateString(controller) \o <<35>> \o templateString(publicKeyMultibase)

\* SM2Multikey.generate({ id, controller })
generate(id, controller, impl) ==
  IF truthyString(id) /\ ~isString(id)
  THEN Throw("ArgumentError", ErrorCodes("ERR_ARGUMENT_INVALID"), "ID must be a string")
  ELSE IF truthyString(controller) /\ ~isString(controller)
  THEN Throw("ArgumentError", ErrorCodes("ERR_ARGUMENT_INVALID"), "Controller must be a string")
  ELSE LET call == callImpl(impl, "generateKey")
           keyPair == impl.keyPair
           compressedPublicKey == compressPublicKey(keyPair.publicKey)
           publicKeyMultibase ==
             encodeKey(MULTICODEC_SM2_PUB_HEADER, compressedPublicKey.val).val
           secretKeyMultibase ==
             encodeKey(MULTICODEC_SM2_PRIV_HEADER, keyPair.secretKey).val
       IN  IF ~call.ok THEN call
           ELSE IF ~truthyObject(keyPair.publicKey) \/ ~truthyObject(keyPair.secretKey)
           THEN Throw("KeyError", ErrorCodes("ERR_KEY_GENERATION"), "Failed to generate key pair")
           ELSE IF ~compressedPublicKey.ok
           THEN Throw("FormatError", ErrorCodes("ERR_FORMAT_ENCODE"), "Failed to encode public key")
           ELSE Ok([publicKey |-> keyPair.publicKey,
                    secretKey |-> keyPair.secretKey,
                    id |-> IF truthyString(controller) /\ ~truthyString(id)
                           THEN derivedId(controller, publicKeyMultibase)
                           ELSE id,
                    controller |-> controller,
                    publicKeyMultibase |-> publicKeyMultibase,
                    secretKeyMultibase |-> secretKeyMultibase])

\* an object without the property publicKeyJwk
noJwk == [isObject |-> FALSE, kty |-> "undefined", crv |-> "undefined",
          x |-> undefined, y |-> undefined, d |-> undefined]

\* the object export() starts from: { type: 'Multikey' }.  A property that
\* is not set holds undefined ("undefined" for type and @context); the
\* order of the properties, which canonicalize changes, is not modelled.
exportedObject ==
  [isObject |-> TRUE, type |-> "Multikey", context |-> "undefined",
   id |-> undefined, controller |-> undefined,
   publicKey |-> undefined, publicKeyMultibase |-> undefined,
   secretKey |-> undefined, secretKeyMultibase |-> undefined,
   publicKeyJwk |-> noJwk]

\* export with the test of the option secretKey left out
exportSecretAlways(this, options) ==
  Ok([exportedObject EXCEPT !.publicKey = this.publicKey,
                            !.secretKey = this.secretKey])

\* export({ publicKey, secretKey, includeContext, raw, canonicalize }); the
\* options are booleans, so the typeof tests pass
export(this, options) ==
  IF ~truthyObject(this.publicKey)
  THEN Throw("KeyError", ErrorCodes("ERR_KEY_NOT_FOUND"), "No key to export")
  ELSE LET compressedPublicKey == compressPublicKey(this.publicKey)
           withContext ==
             [exportedObject EXCEPT
                !.context = IF options.includeContext \/ truthyString(this.id)
                               \/ truthyString(this.controller)
                            THEN MULTIKEY_CONTEXT_V1_URL ELSE "undefined",
                !.id = IF truthyString(this.id) THEN this.id ELSE undefined,
                !.controller = IF truthyString(this.controller)
                               THEN this.controller ELSE undefined]
           withPublic ==
             IF ~options.publicKey THEN withContext
             ELSE IF options.raw THEN [withContext EXCEPT !.publicKey = this.publicKey]
             ELSE [withContext EXCEPT !.publicKeyMultibase =
                     encodeKey(MULTICODEC_SM2_PUB_HEADER, compressedPublicKey.val).val]
           withSecret ==
             IF ~(options.secretKey /\ truthyObject(this.secretKey)) THEN withPublic
             ELSE IF options.raw THEN [withPublic EXCEPT !.secretKey = this.secretKey]
             ELSE [withPublic EXCEPT !.secretKeyMultibase =
                     encodeKey(MULTICODEC_SM2_PRIV_HEADER, this.secretKey).val]
       IN  IF options.publicKey /\ ~options.raw /\ ~compressedPublicKey.ok
           THEN compressedPublicKey
           ELSE Ok(withSecret)

\* SM2Multikey.fromJwk({ jwk, secretKey, id, controller })
staticFromJwk(jwk, secretKey, id, controller) ==
  IF ~jwk.isObject
  THEN Throw("ArgumentError", ErrorCodes("ERR_ARGUMENT_INVALID"), "Invalid JWK object")
  ELSE LET keyPair == fromJwk(jwk, secretKey, id, controller)
       IN  IF ~keyPair.ok THEN keyPair
           ELSE Ok([SM2Multikey EXCEPT !.publicKey = keyPair.val.publicKey,
                                       !.secretKey = keyPair.val.secretKey,
                                       !.id = keyPair.val.id,
                                       !.controller = keyPair.val.controller])

\* step 6 of from: the public key and its multibase form, or the error
fromPublicKey(multikey) ==
  IF truthyString(multikey.publicKeyMultibase)
  THEN LET decoded == decodeKey(multikey.publicKeyMultibase)
           publicKey == uncompressPublicKey(decoded.val.key)
       IN  IF multikey.publicKeyMultibase[1] # MULTIBASE_BASE58BTC_HEADER[1]
           THEN Throw("FormatError", ErrorCodes("ERR_FORMAT_MULTIBASE"), "Invalid multibase format")
           ELSE IF ~decoded.ok THEN decoded
           ELSE IF decoded.val.prefix # MULTICODEC_SM2_PUB_HEADER
           THEN Throw("FormatError", ErrorCodes("ERR_KEY_FORMAT"), "Invalid public key format")
           ELSE IF ~publicKey.ok THEN publicKey
           ELSE Ok([publicKey |-> publicKey.val,
                    publicKeyMultibase |-> multikey.publicKeyMultibase])
  ELSE IF truthyObject(multikey.publicKey)
  THEN LET x == subarray(multikey.publicKey, 0, 32)
           y == subarray(multikey.publicKey, 32, 64)
           valid == validatePublicKeyCoordinates(x, y)
           compressedPublicKey == compressPublicKey(multikey.publicKey)
       IN  IF Len(multikey.publicKey) # 64
           THEN Throw("FormatError", ErrorCodes("ERR_FORMAT_LENGTH"), "Public key must be 64 bytes")
           ELSE IF ~valid.ok THEN valid
           ELSE IF ~compressedPublicKey.ok THEN compressedPublicKey
           ELSE Ok([publicKey |-> multikey.publicKey,
                    publicKeyMultibase |->
                      encodeKey(MULTICODEC_SM2_PUB_HEADER, compressedPublicKey.val).val])
  ELSE Throw("KeyError", ErrorCodes("ERR_KEY_NOT_FOUND"), "No public key found")

\* step 7 of from: the secret key and its multibase form, or the error
fromSecretKey(multikey) ==
  IF truthyString(multikey.secretKeyMultibase)
  THEN LET decoded == decodeKey(multikey.secretKeyMultibase)
       IN  IF multikey.secretKeyMultibase[1] # MULTIBASE_BASE58BTC_HEADER[1]
           THEN Throw("FormatError", ErrorCodes("ERR_FORMAT_MULTIBASE"), "Invalid multibase format")
           ELSE IF ~decoded.ok THEN decoded
           ELSE IF decoded.val.prefix # MULTICODEC_SM2_PRIV_HEADER
           THEN Throw("FormatError", ErrorCodes("ERR_KEY_FORMAT"), "Invalid private key format")
           ELSE Ok([secretKey |-> decoded.val.key,
                    secretKeyMultibase |-> multikey.secretKeyMultibase])
  ELSE IF truthyObject(multikey.secretKey)
  THEN Ok([secretKey |-> multikey.secretKey,
           secretKeyMultibase |->
             encodeKey(MULTICODEC_SM2_PRIV_HEADER, multikey.secretKey).val])
  ELSE Ok([secretKey |-> undefined, secretKeyMultibase |-> undefined])

\* SM2Multikey._assertMultikey(key) after the defaults of from are set
assertMultikey(context) ==
  context = "undefined" \/ context = MULTIKEY_CONTEXT_V1_URL

\* SM2Multikey.from(key)
from(key) ==
  IF ~key.isObject
  THEN Throw("ArgumentError", ErrorCodes("ERR_ARGUMENT_INVALID"), "Key must be an object")
  ELSE IF key.type # "Multikey" /\ key.publicKeyJwk.isObject
  THEN staticFromJwk(key.publicKeyJwk, FALSE, undefined, undefined)
  ELSE LET id == IF truthyString(key.controller) /\ ~truthyString(key.id)
                 THEN derivedId(key.controller, key.publicKeyMultibase)
                 ELSE key.id
           public == fromPublicKey(key)
           secret == fromSecretKey(key)
       IN  IF ~assertMultikey(key.context)
           THEN Throw("ArgumentError", ErrorCodes("ERR_FORMAT_MULTIKEY"), "Invalid SM2Multikey format")
           ELSE IF ~public.ok THEN public
           ELSE IF ~secret.ok THEN secret
           ELSE Ok([publicKey |-> public.val.publicKey,
                    secretKey |-> secret.val.secretKey,
                    id |-> id,
                    controller |-> key.controller,
                    publicKeyMultibase |-> public.val.publicKeyMultibase,
                    secretKeyMultibase |-> secret.val.secretKeyMultibase])

\* signer without the test of the secret key
signerNoKeyTest(this, impl) ==
  Ok([algorithm |-> ALGORITHM, id |-> this.id, impl |-> impl.id,
      publicKey |-> this.publicKey, secretKey |-> this.secretKey])

\* signer(): algorithm, id and the function made by cryptoImpl.createSigner,
\* which is known by the implementation that made it and the keys it holds
signer(this, impl) ==
  LET call == callImpl(impl, "createSigner")
  IN  IF ~truthyObject(this.secretKey)
      THEN Throw("KeyError", ErrorCodes("ERR_KEY_NOT_FOUND"), "No private key available")
      ELSE IF ~call.ok THEN call
      ELSE Ok([algorithm |-> ALGORITHM, id |-> this.id, impl |-> call.val,
               publicKey |-> this.publicKey, secretKey |-> this.secretKey])

\* verifier(): as signer(), with cryptoImpl.createVerifier and no secret key
verifier(this, impl) ==
  LET call == callImpl(impl, "createVerifier")
  IN  IF ~truthyObject(this.publicKey)
      THEN Throw("KeyError", ErrorCodes("ERR_KEY_NOT_FOUND"), "No public key available")
      ELSE IF ~call.ok THEN call
      ELSE Ok([algorithm |-> ALGORITHM, id |-> this.id, impl |-> call.val,
               publicKey |-> this.publicKey, secretKey |-> undefined])

\* the class state when the core module has been loaded and nothing called
InitClass ==
  /\ cryptoImpl = no_implementation
  /\ lastSet = no_implementation
  /\ instance = SM2Multikey

(***************************************************************************)
(* SpecLen: encodeDERLength, then readDERLength at offset 0 of its output  *)
(***************************************************************************)
\* every length up to LenDense, the lengths around each power of two, and
\* the largest length
LenDense == 300

RECURSIVE pow2(_)
pow2(k) == IF k = 0 THEN 1 ELSE 2 * pow2(k - 1)

Lengths ==
  (0..LenDense)
    \cup UNION {{pow2(k) - 1, pow2(k), pow2(k) + 1} : k \in 8..30}
    \cup {INT32_MAX - 1, INT32_MAX}

InitLen ==
  /\ InitClass
  /\ pc = "len.input"
  /\ arg \in Lengths
  /\ mid = None
  /\ res = None

CallEncodeDERLength ==
  /\ pc = "len.input"
  /\ mid' = encodeDERLength(arg)
  /\ pc' = "len.encoded"
  /\ UNCHANGED <<arg, res, cryptoImpl, lastSet, instance>>

CallReadDERLengthOfEncoded ==
  /\ pc = "len.encoded"
  /\ mid.ok
  /\ res' = readDERLength(mid.val, 0)
  /\ pc' = "len.decoded"
  /\ UNCHANGED <<arg, mid, cryptoImpl, lastSet, instance>>

NextLen == CallEncodeDERLength \/ CallReadDERLengthOfEncoded

SpecLen == InitLen /\ [][NextLen]_vars

(***************************************************************************)
(* SpecRead: readDERLength on arbitrary buffers and offsets                *)
(***************************************************************************)
MaxLenBytes == 5

ReadOffsets == {0, 2}

LenByteValues == {0, 5, 127, 128, 255}

\* the byte at the offset: short forms, and long forms announcing 0 to
\* MaxLenBytes + 1 length bytes
FirstByteValues == {0, 127} \cup {128 + n : n \in 0..(MaxLenBytes + 1)}

\* the buffers: o bytes in front of the offset, the byte at the offset, and
\* up to MaxLenBytes bytes after it
InitRead ==
  /\ InitClass
  /\ pc = "read.input"
  /\ \E o \in ReadOffsets, f \in FirstByteValues, k \in 0..MaxLenBytes :
       \E t \in [1..k -> LenByteValues] :
         arg = [data |-> alloc(o, ASN1_SEQUENCE) \o <<f>> \o t, offset |-> o]
  /\ mid = None
  /\ res = None

CallReadDERLength ==
  /\ pc = "read.input"
  /\ res' = readDERLength(arg.data, arg.offset)
  /\ pc' = "read.done"
  /\ UNCHANGED <<arg, mid, cryptoImpl, lastSet, instance>>

NextRead == CallReadDERLength

SpecRead == InitRead /\ [][NextRead]_vars

(***************************************************************************)
(* Claims about the DER length field                                       *)
(***************************************************************************)
\* C5: for every length n in [0, 0x7FFFFFFF], encodeDERLength(n) succeeds and
\* readDERLength of its output at offset 0 returns n together with the
\* number of bytes encodeDERLength produced.
C5_LengthRoundTrip ==
  /\ pc \in {"len.encoded", "len.decoded"} => mid.ok
  /\ pc = "len.decoded" => res.ok /\ res.val = <<arg, Len(mid.val)>>

\* a four-byte long form has been encoded and read back
C5_Witness ==
  pc = "len.decoded" /\ arg > 16777216 /\ Len(mid.val) = 5 /\ res.ok /\ res.val[1] = arg

\* The long-form length field of a read input: the announced number of
\* length bytes, whether they are all in the buffer, and the bytes.
readCount == arg.data[arg.offset + 1] % 128

readIsLongForm ==
  /\ arg.data[arg.offset + 1] > 128
  /\ arg.offset + 1 + readCount <= Len(arg.data)

readLengthBytes == subarray(arg.data, arg.offset + 1, arg.offset + 1 + readCount)

\* the length bytes without their leading zero bytes
significant(bytes) == subarray(bytes, skipLeadingZeros(bytes, 0, Len(bytes)), Len(bytes))

\* the big-endian value of the bytes is above 0x7FFFFFFF
exceedsInt32(bytes) ==
  LET sig == significant(bytes)
  IN  Len(sig) > 4 \/ (Len(sig) = 4 /\ sig[1] >= 128)

\* the big-endian value of bytes whose value is at most 0x7FFFFFFF
RECURSIVE bigEndian(_)
bigEndian(bytes) ==
  IF bytes = <<>> THEN 0
  ELSE bigEndian(SubSeq(bytes, 1, Len(bytes) - 1)) * 256 + bytes[Len(bytes)]

\* C6: readDERLength fails for every long-form length field whose big-endian
\* value exceeds 0x7FFFFFFF, whatever the number of length bytes, and never
\* returns a length different from the value the length bytes encode.
C6_OverflowRejected ==
  (pc = "read.done" /\ readIsLongForm) =>
     /\ exceedsInt32(readLengthBytes) => ~res.ok
     /\ res.ok => /\ ~exceedsInt32(readLengthBytes)
                  /\ res.val[1] = bigEndian(significant(readLengthBytes))

\* C7: readDERLength fails with the structural format error when the byte at
\* the offset is 0x80, whatever the offset, and when a long-form encoding
\* decodes to a value of 127 or less.
C7_IndefiniteAndNonMinimalRejected ==
  pc = "read.done" =>
     /\ arg.data[arg.offset + 1] = 128 => res = Err("ERR_FORMAT_INVALID")
     /\ (/\ readIsLongForm
         /\ ~exceedsInt32(readLengthBytes)
         /\ bigEndian(significant(readLengthBytes)) <= 127)
        => res = Err("ERR_FORMAT_INVALID")

\* 0x81 0x05 has been read at a non-zero offset and rejected
C7_Witness ==
  /\ pc = "read.done"
  /\ arg.offset > 0
  /\ subarray(arg.data, arg.offset, Len(arg.data)) = <<129, 5>>
  /\ res = Err("ERR_FORMAT_INVALID")

(***************************************************************************)
(* SpecSig: signatureToDER, then extractSignatureRS of its output          *)
(***************************************************************************)
SigFirstBytes == {1, 127, 128, 255}

SigFillBytes == {0, 255}

\* 32-byte scalars: k leading zero bytes, a first significant byte, a fill
Halves ==
  {alloc(k, 0) \o <<b>> \o alloc(31 - k, c) :
     k \in 0..31, b \in SigFirstBytes, c \in SigFillBytes} \cup {alloc(32, 0)}

\* inputs of the wrong length
BadSignatures == {<<>>, alloc(63, 1), alloc(65, 1)}

InitSig ==
  /\ InitClass
  /\ pc = "sig.input"
  /\ \/ \E r \in Halves, s \in Halves : arg = r \o s
     \/ arg \in BadSignatures
  /\ mid = None
  /\ res = None

CallSignatureToDER ==
  /\ pc = "sig.input"
  /\ mid' = signatureToDER(arg)
  /\ pc' = "sig.encoded"
  /\ UNCHANGED <<arg, res, cryptoImpl, lastSet, instance>>

CallExtractSignatureRS ==
  /\ pc = "sig.encoded"
  /\ mid.ok
  /\ res' = extractSignatureRS(mid.val)
  /\ pc' = "sig.decoded"
  /\ UNCHANGED <<arg, mid, cryptoImpl, lastSet, instance>>

NextSig == CallSignatureToDER \/ CallExtractSignatureRS

SpecSig == InitSig /\ [][NextSig]_vars

\* C2: for every 64-byte raw signature s, signatureToDER(s) succeeds and
\* extractSignatureRS of it returns exactly s.
C2_SignatureRoundTrip ==
  /\ (pc \in {"sig.encoded", "sig.decoded"} /\ Len(arg) = 64) => mid.ok
  /\ pc = "sig.decoded" => res.ok /\ res.val = arg

\* a signature whose r has the high bit set and whose s is all zero has
\* been encoded and decoded
C2_Witness ==
  /\ pc = "sig.decoded"
  /\ arg[1] >= 128
  /\ subarray(arg, 32, 64) = alloc(32, 0)
  /\ Len(mid.val) = 2 + 35 + 3
  /\ res.ok

\* An INTEGER TLV in canonical minimal form starts at index i (from 0) of d:
\* the tag, a short-form length of 1 to 33 that stays inside d, a first
\* content byte with the high bit clear, and a leading 0x00 only before a
\* byte with the high bit set.
canonicalIntegerAt(d, i) ==
  /\ At(d, i) = ASN1_INTEGER
  /\ At(d, i + 1) \in 1..33
  /\ i + 2 + At(d, i + 1) <= Len(d)
  /\ At(d, i + 2) < 128
  /\ (At(d, i + 1) >= 2 /\ At(d, i + 2) = 0) => At(d, i + 3) >= 128

\* C8: for every 64-byte input, signatureToDER returns a SEQUENCE of exactly
\* two INTEGER TLVs in canonical minimal form, every declared length equal
\* to the length of the content it covers.
C8_CanonicalSignatureDER ==
  (pc \in {"sig.encoded", "sig.decoded"} /\ Len(arg) = 64) =>
     /\ mid.ok
     /\ At(mid.val, 0) = ASN1_SEQUENCE
     /\ At(mid.val, 1) < 128
     /\ At(mid.val, 1) = Len(mid.val) - 2
     /\ canonicalIntegerAt(mid.val, 2)
     /\ canonicalIntegerAt(mid.val, 4 + At(mid.val, 3))
     /\ 4 + At(mid.val, 3) + 2 + At(mid.val, 5 + At(mid.val, 3)) = Len(mid.val)

\* a guard byte has been added to r, and s has been cut to one byte
C8_Witness ==
  /\ pc = "sig.encoded"
  /\ Len(arg) = 64
  /\ arg[1] >= 128
  /\ mid.ok
  /\ At(mid.val, 3) = 33
  /\ At(mid.val, 4) = 0
  /\ At(mid.val, 38) = 1

(***************************************************************************)
(* SpecKeyDER: publicKeyToDER, then parsePublicKeyDER of its output        *)
(***************************************************************************)
CoordFirstBytes == {1, 4, 48, 128, 255}

\* 32-byte coordinates: leading zero bytes, a first byte, a fill
Coords ==
  {alloc(k, 0) \o <<b>> \o alloc(31 - k, c) :
     k \in {0, 1, 15, 30, 31}, b \in CoordFirstBytes, c \in {0, 255}} \cup {alloc(32, 0)}

\* coordinates of the wrong length
BadCoords == {<<>>, alloc(31, 1), alloc(33, 1)}

KeyDERInputs ==
  {[x |-> x, y |-> y] : x \in Coords, y \in Coords}
    \cup {[x |-> x, y |-> alloc(32, 1)] : x \in BadCoords}
    \cup {[x |-> alloc(32, 1), y |-> y] : y \in BadCoords}

InitKeyDER ==
  /\ InitClass
  /\ pc = "der.input"
  /\ arg \in KeyDERInputs
  /\ mid = None
  /\ res = None

CallPublicKeyToDER ==
  /\ pc = "der.input"
  /\ mid' = publicKeyToDER(arg.x, arg.y)
  /\ pc' = "der.encoded"
  /\ UNCHANGED <<arg, res, cryptoImpl, lastSet, instance>>

CallParsePublicKeyDER ==
  /\ pc = "der.encoded"
  /\ mid.ok
  /\ res' = parsePublicKeyDER(mid.val)
  /\ pc' = "der.decoded"
  /\ UNCHANGED <<arg, mid, cryptoImpl, lastSet, instance>>

NextKeyDER == CallPublicKeyToDER \/ CallParsePublicKeyDER

SpecKeyDER == InitKeyDER /\ [][NextKeyDER]_vars

PointCoords ==
  {bigIntToBuffer(v, 32) : v \in (0..(P + 1)) \cup {65535}}
    \cup {<<1>> \o alloc(31, 0), alloc(32, 255)}

\* raw keys of the wrong length
BadRawKeys == {alloc(63, 1), alloc(65, 1)}

PointPrefixes == {0, 2, 3, 4, 255}

CompressedKeys ==
  {<<f>> \o x : f \in PointPrefixes, x \in PointCoords} \cup {alloc(32, 2), alloc(34, 2)}

InitPoint ==
  /\ InitClass
  /\ res = None
  /\ \/ /\ pc = "point.raw"
        /\ \/ \E x \in PointCoords, y \in PointCoords : arg = x \o y
           \/ arg \in BadRawKeys
        /\ mid = None
     \/ pc = "point.compressed" /\ arg \in CompressedKeys /\ mid = Ok(arg)

CallCompressPublicKey ==
  /\ pc = "point.raw"
  /\ mid' = compressPublicKey(arg)
  /\ pc' = "point.compressed"
  /\ UNCHANGED <<arg, res, cryptoImpl, lastSet, instance>>

CallUncompressPublicKey ==
  /\ pc = "point.compressed"
  /\ mid.ok
  /\ res' = uncompressPublicKey(mid.val)
  /\ pc' = "point.done"
  /\ UNCHANGED <<arg, mid, cryptoImpl, lastSet, instance>>

\* compressPublicKey of the key that uncompressPublicKey returned
CallCompressPublicKeyOfResult ==
  /\ pc = "point.done"
  /\ res.ok
  /\ res' = compressPublicKey(res.val)
  /\ pc' = "point.recompressed"
  /\ UNCHANGED <<arg, mid, cryptoImpl, lastSet, instance>>

NextPoint ==
  CallCompressPublicKey \/ CallUncompressPublicKey \/ CallCompressPublicKeyOfResult

SpecPoint == InitPoint /\ [][NextPoint]_vars

\* the numbers held by a raw key or by the x of a compressed key
xOfRaw(k) == bigIntOf(subarray(k, 0, 32), 0, 0)

yOfRaw(k) == bigIntOf(subarray(k, 32, 64), 0, 0)

xOfCompressed(c) == bigIntOf(subarray(c, 1, 33), 0, 0)

\* t = (x^3 + A*x + B) mod P for x < P
curveRHS(x) == (((x * x) % P) * x + A * x + B) % P

hasSquareRoot(t) == \E r \in 0..(P - 1) : (r * r) % P = t

onCurve(k) ==
  /\ Len(k) = 64
  /\ xOfRaw(k) < P
  /\ yOfRaw(k) < P
  /\ (yOfRaw(k) * yOfRaw(k)) % P = curveRHS(xOfRaw(k))

\* the compressed key handed to uncompressPublicKey is well formed
validCompressed(c) == Len(c) = 33 /\ c[1] \in {2, 3} /\ xOfCompressed(c) < P

\* C1: uncompressPublicKey fails whenever t = (x^3 + A*x + B) mod P has no
\* modular square root, and every key it returns satisfies
\* y^2 = x^3 + A*x + B (mod P).
C1_NoFallbackY ==
  (pc = "point.done" /\ validCompressed(mid.val)) =>
     /\ ~hasSquareRoot(curveRHS(xOfCompressed(mid.val))) => ~res.ok
     /\ res.ok => onCurve(res.val)

\* C3: for every 64-byte raw key k = x || y on the curve with x < P and
\* y < P, compressPublicKey(k) succeeds and uncompressPublicKey of it
\* returns exactly k.
C3_CompressRoundTrip ==
  (pc \in {"point.compressed", "point.done"} /\ onCurve(arg)) =>
     /\ mid.ok
     /\ pc = "point.done" => res.ok /\ res.val = arg

\* an on-curve key with an odd y above 255 has made the round trip
C3_Witness ==
  /\ pc = "point.done"
  /\ onCurve(arg)
  /\ arg[64] % 2 = 1
  /\ arg[63] = 1
  /\ mid.val[1] = 3
  /\ res.ok
  /\ res.val = arg

\* C9: for every 64-byte input x || y with x < P and y < P, compressPublicKey
\* returns exactly 33 bytes: byte 0 is 0x02 when y is even and 0x03 when y is
\* odd, and bytes 1..32 are x unchanged.
C9_CompressedForm ==
  (/\ pc \in {"point.compressed", "point.done"}
   /\ Len(arg) = 64
   /\ xOfRaw(arg) < P
   /\ yOfRaw(arg) < P)
  => /\ mid.ok
     /\ Len(mid.val) = 33
     /\ mid.val[1] = (IF arg[64] % 2 = 0 THEN 2 ELSE 3)
     /\ SubSeq(mid.val, 2, 33) = SubSeq(arg, 1, 32)

\* a key that is not on the curve, with an even two-byte y, has been
\* compressed
C9_Witness ==
  /\ pc = "point.compressed"
  /\ Len(arg) = 64
  /\ xOfRaw(arg) < P
  /\ yOfRaw(arg) < P
  /\ ~onCurve(arg)
  /\ arg[63] = 1
  /\ arg[64] % 2 = 0
  /\ mid.ok
  /\ mid.val[1] = 2

(***************************************************************************)
(* SpecSqrt: modularSquareRoot for prime moduli                            *)
(***************************************************************************)
MaxPrime == 260

isPrime(n) == n > 1 /\ \A k \in 2..(n - 1) : n % k # 0

\* every prime modulus up to MaxPrime and every a in 0..p (a = p is out of
\* range)
SqrtInputs ==
  {[a |-> a, p |-> p] : a \in 0..MaxPrime, p \in {n \in 2..MaxPrime : isPrime(n)}}

InitSqrt ==
  /\ InitClass
  /\ pc = "sqrt.input"
  /\ arg \in {i \in SqrtInputs : i.a <= i.p}
  /\ mid = None
  /\ res = None

CallModularSquareRoot ==
  /\ pc = "sqrt.input"
  /\ res' = modularSquareRoot(arg.a, arg.p)
  /\ pc' = "sqrt.done"
  /\ UNCHANGED <<arg, mid, cryptoImpl, lastSet, instance>>

NextSqrt == CallModularSquareRoot

SpecSqrt == InitSqrt /\ [][NextSqrt]_vars

isResidue(a, p) == \E r \in 0..(p - 1) : (r * r) % p = a

\* C10: for every odd prime p and every a with 0 <= a < p,
\* modularSquareRoot(a, p) returns 0 when a = 0, some r with r*r mod p = a
\* when a is a quadratic residue, and null when a is a non-residue.
C10_ModularSquareRoot ==
  (pc = "sqrt.done" /\ arg.p > 2 /\ arg.a < arg.p) =>
     /\ res.ok
     /\ arg.a = 0 => res.val = 0
     /\ isResidue(arg.a, arg.p) => res.val \in 0..(arg.p - 1) /\ (res.val * res.val) % arg.p = arg.a
     /\ ~isResidue(arg.a, arg.p) => res.val = null

\* a root has been found by the Tonelli-Shanks loop for a modulus with
\* p - 1 divisible by 16, and for an a whose root needs the loop body
C10_Witness ==
  /\ pc = "sqrt.done"
  /\ arg.p % 16 = 1
  /\ arg.a > 1
  /\ powerMod(arg.a, factorTwos(arg.p - 1, 0)[1], arg.p).val # 1
  /\ res.ok
  /\ res.val # null
  /\ (res.val * res.val) % arg.p = arg.a

(***************************************************************************)
(* SpecSecret: secretKeyToDER (and publicKeyToDER) of d, x, y; then        *)
(* extractSecretKeyD of the first `keep` bytes of the private key DER      *)
(***************************************************************************)
\* private scalars, three of them of the wrong length
SecretScalars ==
  {alloc(32, 0), alloc(32, 255), <<1>> \o alloc(31, 0), <<>>, alloc(31, 1), alloc(33, 1)}

\* coordinates, three of them of the wrong length
SecretCoords ==
  {alloc(32, 0), alloc(32, 255), alloc(31, 0) \o <<1>>, <<>>, alloc(31, 1), alloc(33, 1)}

\* the length of a private key DER
secretDERLength == Len(DER_PRIVATE_KEY_PREFIX) + 32 + Len(DER_PRIVATE_KEY_SUFFIX) + 65

InitSecret ==
  /\ InitClass
  /\ pc = "sk.input"
  /\ \E d \in SecretScalars, x \in SecretCoords, y \in SecretCoords,
        keep \in 0..secretDERLength :
       arg = [d |-> d, x |-> x, y |-> y, keep |-> keep]
  /\ mid = None
  /\ res = None

CallSecretKeyToDER ==
  /\ pc = "sk.input"
  /\ mid' = secretKeyToDER(arg.d, arg.x, arg.y)
  /\ pc' = "sk.encoded"
  /\ UNCHANGED <<arg, res, cryptoImpl, lastSet, instance>>

CallPublicKeyToDEROfKey ==
  /\ pc = "sk.input"
  /\ mid' = publicKeyToDER(arg.x, arg.y)
  /\ pc' = "sk.public"
  /\ UNCHANGED <<arg, res, cryptoImpl, lastSet, instance>>

CallExtractSecretKeyD ==
  /\ pc = "sk.encoded"
  /\ mid.ok
  /\ res' = extractSecretKeyD(subarray(mid.val, 0, arg.keep))
  /\ pc' = "sk.decoded"
  /\ UNCHANGED <<arg, mid, cryptoImpl, lastSet, instance>>

NextSecret == CallSecretKeyToDER \/ CallPublicKeyToDEROfKey \/ CallExtractSecretKeyD

SpecSecret == InitSecret /\ [][NextSecret]_vars

\* C11: extractSecretKeyD either fails or returns exactly 32 bytes, also when
\* the private-key OCTET STRING declares length 32 and fewer than 32 bytes
\* remain in the input.
C11_SecretKeyIs32Bytes ==
  (pc = "sk.decoded" /\ res.ok) => Len(res.val) = 32

\* C12: every failure raised by a codec operation carries a defined error
\* code, a member of ErrorCodes; in particular the failure of
\* uncompressPublicKey for a prefix outside {0x02, 0x03}.
C12_ErrorCodeDefined ==
  /\ (mid # None /\ ~mid.ok) => mid.code \in ErrorCodeNames
  /\ (res # None /\ ~res.ok) => res.code \in ErrorCodeNames

validCoordinatePair(x, y) == Len(x) = 32 /\ Len(y) = 32 /\ x \o y # alloc(64, 0)

\* C13: publicKeyToDER(x, y) and secretKeyToDER(d, x, y) fail and produce no
\* output when x or y is not exactly 32 bytes, when (x, y) is the all-zero
\* pair, or (secretKeyToDER) when d is not exactly 32 bytes; otherwise the
\* output is prefix || 0x04 || x || y (91 bytes), respectively
\* prefix || d || suffix || 0x04 || x || y (138 bytes).
C13_KeyToDEROutput ==
  /\ pc = "sk.public" =>
       IF validCoordinatePair(arg.x, arg.y)
       THEN /\ mid.ok
            /\ mid.val = DER_PUBLIC_KEY_PREFIX \o <<4>> \o arg.x \o arg.y
            /\ Len(mid.val) = 91
       ELSE ~mid.ok /\ mid.val = <<>>
  /\ pc \in {"sk.encoded", "sk.decoded"} =>
       IF validCoordinatePair(arg.x, arg.y) /\ Len(arg.d) = 32
       THEN /\ mid.ok
            /\ mid.val = DER_PRIVATE_KEY_PREFIX \o arg.d \o DER_PRIVATE_KEY_SUFFIX
                           \o <<4>> \o arg.x \o arg.y
            /\ Len(mid.val) = 138
       ELSE ~mid.ok /\ mid.val = <<>>

\* a private key has been encoded whose x is zero and whose y is not
C13_Witness ==
  /\ pc = "sk.encoded"
  /\ arg.x = alloc(32, 0)
  /\ arg.y # alloc(32, 0)
  /\ mid.ok
  /\ Len(mid.val) = 138

(***************************************************************************)
(* SpecMultikey: the package loaded through lib/index.js, which sets the   *)
(* crypto implementation; one instance is made by generate, from, fromJwk  *)
(* or new, then exported (and the export imported again) or asked for a    *)
(* signer or verifier.                                                     *)
(* SpecCrypto: the core module loaded alone; setCryptoImpl is called any   *)
(* number of times before and after an instance is made.                   *)
(***************************************************************************)
\* a raw public key with the coordinates x and y
pointKey(x, y) == bigIntToBuffer(x, 32) \o bigIntToBuffer(y, 32)

\* implementations handed to setCryptoImpl: two complete ones, the object
\* {}, an object whose only method generateKey returns no secret key, null
nodeCrypto ==
  [isObject |-> TRUE, id |-> 1, methods |-> RequiredMethods, throws |-> FALSE,
   keyPair |-> [publicKey |-> pointKey(1, 96), secretKey |-> alloc(32, 7)]]

otherCrypto ==
  [isObject |-> TRUE, id |-> 2, methods |-> RequiredMethods, throws |-> FALSE,
   keyPair |-> [publicKey |-> pointKey(3, 89), secretKey |-> <<1>> \o alloc(31, 0)]]

emptyObject ==
  [isObject |-> TRUE, id |-> 3, methods |-> {}, throws |-> FALSE,
   keyPair |-> [publicKey |-> undefined, secretKey |-> undefined]]

generateOnly ==
  [isObject |-> TRUE, id |-> 4, methods |-> {"generateKey"}, throws |-> FALSE,
   keyPair |-> [publicKey |-> pointKey(1, 96), secretKey |-> undefined]]

nullImpl ==
  [isObject |-> FALSE, id |-> 5, methods |-> {}, throws |-> FALSE,
   keyPair |-> [publicKey |-> undefined, secretKey |-> undefined]]

Impls == {nodeCrypto, otherCrypto, emptyObject, generateOnly, nullImpl}

\* id and controller: not given, a string ("k1", "did"), a number
Ids == {undefined, <<107, 49>>, <<-7>>}

Controllers == {undefined, <<100, 105, 100>>, <<-7>>}

\* public keys handed to from: on the curve with even and with odd y, off
\* the curve (x has a root; x has none), the zero pair, of 63 bytes
RawPublicKeys ==
  {pointKey(1, 96), pointKey(3, 89), pointKey(1, 97), pointKey(2, 5),
   alloc(64, 0), alloc(63, 1)}

\* multibase public keys: well formed, with the header of a secret key,
\* with an unknown header, without the 'z', with a character outside the
\* alphabet
PublicKeyMultibases ==
  {encodeKey(MULTICODEC_SM2_PUB_HEADER, <<2>> \o bigIntToBuffer(1, 32)).val,
   encodeKey(MULTICODEC_SM2_PRIV_HEADER, <<2>> \o bigIntToBuffer(1, 32)).val,
   encodeKey(<<133, 36>>, <<2>> \o bigIntToBuffer(1, 32)).val,
   <<97, 98, 99>>,
   <<122, 48, 49>>}

SecretKeys == {alloc(32, 7), alloc(5, 9)}

SecretKeyMultibases ==
  {encodeKey(MULTICODEC_SM2_PRIV_HEADER, alloc(32, 255)).val,
   encodeKey(MULTICODEC_SM2_PUB_HEADER, alloc(32, 255)).val}

\* "AQEBAQEB...": the base64url string of n characters that decodes to
\* bytes of value 1
jwkString(n) == [i \in 1..n |-> <<65, 81, 69, 66>>[((i - 1) % 4) + 1]]

\* coordinates and scalars of a JWK: 32, 31 and 33 bytes, and none
JwkStrings == {jwkString(43), jwkString(42), jwkString(44), undefined}

\* the base64url strings of the coordinates 1 and 96 of a point of the curve
jwkOne == [i \in 1..43 |-> IF i = 43 THEN 69 ELSE 65]

jwkNinetySix == [i \in 1..43 |-> IF i = 42 THEN 71 ELSE 65]

Jwks ==
  {[isObject |-> TRUE, kty |-> "EC", crv |-> "SM2", x |-> x, y |-> y, d |-> d] :
     x \in JwkStrings, y \in {jwkString(43), jwkString(42)}, d \in JwkStrings}
    \cup {[isObject |-> TRUE, kty |-> "EC", crv |-> "P-256", x |-> jwkString(43),
           y |-> jwkString(43), d |-> undefined],
          [isObject |-> TRUE, kty |-> "EC", crv |-> "SM2", x |-> jwkOne,
           y |-> jwkNinetySix, d |-> jwkString(43)],
          noJwk}

\* the objects handed to from: every public key with every secret key;
\* every public key with id and controller given or not; a key with another
\* context; keys of another type, with and without publicKeyJwk; null
keyObject(publicKey, publicKeyMultibase, secretKey, secretKeyMultibase, id, controller) ==
  [exportedObject EXCEPT !.publicKey = publicKey,
                         !.publicKeyMultibase = publicKeyMultibase,
                         !.secretKey = secretKey,
                         !.secretKeyMultibase = secretKeyMultibase,
                         !.id = id,
                         !.controller = controller]

PublicForms ==
  {<<k, undefined>> : k \in RawPublicKeys}
    \cup {<<undefined, m>> : m \in PublicKeyMultibases}
    \cup {<<undefined, undefined>>}

SecretForms ==
  {<<k, undefined>> : k \in SecretKeys}
    \cup {<<undefined, m>> : m \in SecretKeyMultibases}
    \cup {<<undefined, undefined>>}

FromKeys ==
  {keyObject(p[1], p[2], s[1], s[2], undefined, undefined) :
     p \in PublicForms, s \in SecretForms}
    \cup {keyObject(p[1], p[2], undefined, undefined, i, c) :
            p \in PublicForms, i \in Ids \ {<<-7>>}, c \in Controllers \ {<<-7>>}}
    \cup {[keyObject(pointKey(1, 96), undefined, undefined, undefined, undefined, undefined)
             EXCEPT !.context = c] :
            c \in {MULTIKEY_CONTEXT_V1_URL, "https://example.org/context"}}
    \cup {[keyObject(pointKey(1, 96), undefined, undefined, undefined, undefined,
                     <<100, 105, 100>>)
             EXCEPT !.type = "JsonWebKey", !.publicKeyJwk = j] :
            j \in {noJwk,
                   [isObject |-> TRUE, kty |-> "EC", crv |-> "SM2",
                    x |-> jwkString(43), y |-> jwkString(43), d |-> jwkString(43)]}}
    \cup {[exportedObject EXCEPT !.isObject = FALSE]}

InitMultikey ==
  /\ pc = "mk.start"
  /\ arg = [op |-> "load"]
  /\ mid = None
  /\ res = None
  /\ cryptoImpl = setCryptoImpl(nodeCrypto, no_implementation).cryptoImpl
  /\ lastSet = nodeCrypto
  /\ instance = SM2Multikey

InitCrypto ==
  /\ pc = "mk.start"
  /\ arg = [op |-> "load"]
  /\ mid = None
  /\ res = None
  /\ InitClass

\* a static call that returns an instance: the instance is kept when the
\* call succeeds
Made(result) ==
  /\ res' = result
  /\ instance' = IF result.ok THEN result.val ELSE instance
  /\ pc' = IF result.ok THEN "mk.instance" ELSE "mk.failed"
  /\ UNCHANGED <<mid, cryptoImpl, lastSet>>

CallSetCryptoImpl ==
  /\ pc \in {"mk.start", "mk.instance"}
  /\ \E impl \in Impls :
       LET r == setCryptoImpl(impl, cryptoImpl)
       IN  /\ arg' = [op |-> "setCryptoImpl", impl |-> impl]
           /\ res' = r.result
           /\ cryptoImpl' = r.cryptoImpl
           /\ lastSet' = IF r.result.ok THEN impl ELSE lastSet
  /\ UNCHANGED <<pc, mid, instance>>

CallGenerate ==
  /\ pc = "mk.start"
  /\ \E id \in Ids, controller \in Controllers :
       /\ arg' = [op |-> "generate", id |-> id, controller |-> controller]
       /\ Made(generate(id, controller, cryptoImpl))

CallFrom ==
  /\ pc = "mk.start"
  /\ \E key \in FromKeys :
       /\ arg' = [op |-> "from", key |-> key]
       /\ Made(from(key))

CallFromJwk ==
  /\ pc = "mk.start"
  /\ \E jwk \in Jwks, secretKey \in BOOLEAN, id \in Ids \ {<<-7>>} :
       /\ arg' = [op |-> "fromJwk", jwk |-> jwk, secretKey |-> secretKey, id |-> id]
       /\ Made(staticFromJwk(jwk, secretKey, id, undefined))

Construct ==
  /\ pc = "mk.start"
  /\ arg' = [op |-> "new"]
  /\ Made(Ok(SM2Multikey))

CallExport ==
  /\ pc = "mk.instance"
  /\ \E options \in [publicKey : BOOLEAN, secretKey : BOOLEAN, includeContext : BOOLEAN,
                     raw : BOOLEAN, canonicalize : BOOLEAN] :
       /\ arg' = [op |-> "export", options |-> options]
       /\ mid' = export(instance, options)
  /\ pc' = "mk.exported"
  /\ UNCHANGED <<res, cryptoImpl, lastSet, instance>>

\* from(exported); arg still holds the options of the export
CallFromExported ==
  /\ pc = "mk.exported"
  /\ mid.ok
  /\ res' = from(mid.val)
  /\ pc' = "mk.imported"
  /\ UNCHANGED <<arg, mid, cryptoImpl, lastSet, instance>>

CallSigner ==
  /\ pc = "mk.instance"
  /\ arg' = [op |-> "signer"]
  /\ res' = signer(instance, cryptoImpl)
  /\ pc' = "mk.called"
  /\ UNCHANGED <<mid, cryptoImpl, lastSet, instance>>

CallVerifier ==
  /\ pc = "mk.instance"
  /\ arg' = [op |-> "verifier"]
  /\ res' = verifier(instance, cryptoImpl)
  /\ pc' = "mk.called"
  /\ UNCHANGED <<mid, cryptoImpl, lastSet, instance>>

NextMultikey ==
  \/ CallGenerate
  \/ CallFrom
  \/ CallFromJwk
  \/ Construct
  \/ CallExport
  \/ CallFromExported
  \/ CallSigner
  \/ CallVerifier

SpecMultikey == InitMultikey /\ [][NextMultikey]_vars

NextCrypto ==
  \/ CallSetCryptoImpl
  \/ CallGenerate
  \/ CallFrom
  \/ Construct
  \/ CallSigner
  \/ CallVerifier

SpecCrypto == InitCrypto /\ [][NextCrypto]_vars

(***************************************************************************)
(* Claims about the class SM2Multikey                                      *)
(***************************************************************************)
\* the options export() uses when none are given
defaultOptions ==
  [publicKey |-> TRUE, secretKey |-> FALSE, includeContext |-> FALSE,
   raw |-> FALSE, canonicalize |-> FALSE]

\* C14: for every instance and every combination of export options, the
\* exported object holds neither secretKey nor secretKeyMultibase unless the
\* option secretKey is true; with the default options it holds the public
\* key (in multibase form) only.
C14_NoSecretUnlessAsked ==
  (pc = "mk.exported" /\ mid.ok) =>
    /\ ~arg.options.secretKey =>
         /\ mid.val.secretKey = undefined
         /\ mid.val.secretKeyMultibase = undefined
    /\ arg.options = defaultOptions =>
         /\ mid.val.publicKeyMultibase # undefined
         /\ mid.val.publicKey = undefined
         /\ mid.val.secretKey = undefined
         /\ mid.val.secretKeyMultibase = undefined

C14_Witness ==
  /\ pc = "mk.exported"
  /\ mid.ok
  /\ instance.secretKey # undefined
  /\ arg.options = [defaultOptions EXCEPT !.raw = TRUE]
  /\ mid.val.publicKey = instance.publicKey
  /\ mid.val.secretKey = undefined

\* C15: for every key pair k holding an on-curve public key,
\* from(k.export({secretKey: true})) yields an instance whose publicKey and
\* secretKey equal those of k byte for byte, in the multibase form and in
\* the raw form (raw: true).
C15_ExportImportRoundTrip ==
  (/\ pc = "mk.imported"
   /\ arg.options.publicKey
   /\ arg.options.secretKey
   /\ instance.publicKey # undefined
   /\ onCurve(instance.publicKey)) =>
    /\ res.ok
    /\ res.val.publicKey = instance.publicKey
    /\ res.val.secretKey = instance.secretKey

\* a key pair with an odd y has come back from its multibase form
C15_Witness ==
  /\ pc = "mk.imported"
  /\ arg.options.publicKey
  /\ arg.options.secretKey
  /\ ~arg.options.raw
  /\ instance.publicKey = pointKey(3, 89)
  /\ instance.secretKey # undefined
  /\ mid.val.secretKeyMultibase # undefined
  /\ res.ok
  /\ res.val.secretKey = instance.secretKey

\* C16: every instance returned by generate, from or fromJwk holds a public
\* key of exactly 64 bytes and a secret key that is absent or of exactly 32
\* bytes.
C16_KeyLengths ==
  (pc = "mk.instance" /\ arg.op \in {"generate", "from", "fromJwk"}) =>
    /\ instance.publicKey # undefined
    /\ Len(instance.publicKey) = 64
    /\ instance.secretKey = undefined \/ Len(instance.secretKey) = 32

\* C17: whenever generate or from is given a controller but no id, the id of
\* the instance is controller + '#' + the instance's own publicKeyMultibase,
\* whichever way the public key was supplied.
C17_DerivedId ==
  /\ (pc = "mk.instance" /\ arg.op = "generate"
        /\ truthyString(arg.controller) /\ ~truthyString(arg.id)) =>
       instance.id = arg.controller \o <<35>> \o instance.publicKeyMultibase
  /\ (pc = "mk.instance" /\ arg.op = "from"
        /\ truthyString(arg.key.controller) /\ ~truthyString(arg.key.id)) =>
       /\ instance.publicKeyMultibase # undefined
       /\ instance.id = arg.key.controller \o <<35>> \o instance.publicKeyMultibase

\* C18: signer() throws a KeyError with code ERR_KEY_NOT_FOUND on every
\* instance that has no secret key, verifier() does on every instance that
\* has no public key, and neither call changes the instance.
C18_MissingKey ==
  /\ [](/\ (pc = "mk.called" /\ arg.op = "signer" /\ instance.secretKey = undefined) =>
             /\ ~res.ok
             /\ res.name = "KeyError"
             /\ res.code = "ERR_KEY_NOT_FOUND"
        /\ (pc = "mk.called" /\ arg.op = "verifier" /\ instance.publicKey = undefined) =>
             /\ ~res.ok
             /\ res.name = "KeyError"
             /\ res.code = "ERR_KEY_NOT_FOUND")
  /\ [][pc' = "mk.called" => instance' = instance]_vars

C18_Witness ==
  /\ pc = "mk.called"
  /\ arg.op = "signer"
  /\ instance.publicKey # undefined
  /\ instance.secretKey = undefined
  /\ ~res.ok

\* an implementation that setCryptoImpl has to reject
incomplete(impl) == ~impl.isObject \/ impl.methods # RequiredMethods

\* C19: setCryptoImpl throws an ArgumentError and leaves the implementation
\* configured before in place when its argument is not an object or lacks
\* one of generateKey, createSigner, createVerifier, digest.
C19_IncompleteImplRejected ==
  (arg.op = "setCryptoImpl" /\ incomplete(arg.impl)) =>
    /\ ~res.ok
    /\ res.name = "ArgumentError"
    /\ cryptoImpl # arg.impl

\* the call in arg was made on an instance (or with arguments) that lets it
\* reach the crypto implementation
reachesImpl ==
  \/ /\ pc = "mk.called" /\ arg.op = "signer" /\ instance.secretKey # undefined
  \/ /\ pc = "mk.called" /\ arg.op = "verifier" /\ instance.publicKey # undefined
  \/ /\ pc \in {"mk.instance", "mk.failed"} /\ arg.op = "generate"
     /\ arg.id \in Ids \ {<<-7>>} /\ arg.controller \in Controllers \ {<<-7>>}

\* the outcome of the call in arg under the implementation impl
outcomeUnder(impl) ==
  IF arg.op = "signer" THEN signer(instance, impl)
  ELSE IF arg.op = "verifier" THEN verifier(instance, impl)
  ELSE generate(arg.id, arg.controller, impl)

\* C20: until setCryptoImpl has succeeded once, generate(), and signer() and
\* verifier() on an instance that holds the key they need, fail with 'No
\* crypto implementation set'; after a successful setCryptoImpl every later
\* generate, signer or verifier call uses the implementation set most
\* recently.
C20_ImplementationInUse ==
  reachesImpl =>
    IF lastSet = no_implementation
    THEN ~res.ok /\ res.name = "Error" /\ res.message = "No crypto implementation set"
    ELSE res = outcomeUnder(lastSet)

\* a signer made after the implementation was replaced
C20_Witness ==
  /\ pc = "mk.called"
  /\ arg.op = "signer"
  /\ instance.publicKey = nodeCrypto.keyPair.publicKey
  /\ instance.secretKey = nodeCrypto.keyPair.secretKey
  /\ lastSet = otherCrypto
  /\ res.ok
  /\ res.val.impl = otherCrypto.id

(***************************************************************************)
(* SpecSigDER: extractSignatureRS of an arbitrary DER signature, then      *)
(* signatureToDER of what it returned                                      *)
(***************************************************************************)
\* INTEGER contents: minimal (1, 0, 127, 128 with its guard byte, 32 bytes,
\* 32 bytes with a guard byte), padded with a zero byte, with the top bit
\* set and no guard byte, empty, and of 33 significant bytes
IntegerContents ==
  {<<1>>, <<0>>, <<127>>, <<0, 128>>, alloc(32, 1), <<0>> \o alloc(32, 255),
   <<0, 1>>, <<128>>, <<>>, <<1>> \o alloc(32, 0)}

\* what the sequence length field is off by, and bytes after the sequence
SequenceLengthErrors == {0, 1}

TrailingBytes == {<<>>, <<0>>}

\* how many bytes are cut off the end of the signature
MaxCut == 2

SequenceTags == {ASN1_SEQUENCE, ASN1_SEQUENCE + 1}

integerTLV(content) == <<ASN1_INTEGER>> \o encodeDERLength(Len(content)).val \o content

InitSigDER ==
  /\ InitClass
  /\ pc = "sigder.input"
  /\ \E r \in IntegerContents, s \in IntegerContents, e \in SequenceLengthErrors,
        t \in TrailingBytes, cut \in 0..MaxCut, tag \in SequenceTags :
       LET body == integerTLV(r) \o integerTLV(s)
           der == <<tag>> \o encodeDERLength(Len(body) + e).val \o body \o t
       IN  arg = [der |-> subarray(der, 0, Len(der) - cut), r |-> r, s |-> s,
                  cut |-> cut, tag |-> tag]
  /\ mid = None
  /\ res = None

CallExtractSignatureRSOfDER ==
  /\ pc = "sigder.input"
  /\ mid' = extractSignatureRS(arg.der)
  /\ pc' = "sigder.decoded"
  /\ UNCHANGED <<arg, res, cryptoImpl, lastSet, instance>>

CallSignatureToDEROfRS ==
  /\ pc = "sigder.decoded"
  /\ mid.ok
  /\ res' = signatureToDER(mid.val)
  /\ pc' = "sigder.encoded"
  /\ UNCHANGED <<arg, mid, cryptoImpl, lastSet, instance>>

NextSigDER == CallExtractSignatureRSOfDER \/ CallSignatureToDEROfRS

SpecSigDER == InitSigDER /\ [][NextSigDER]_vars

\* the magnitude of an INTEGER content: its bytes without leading zeros
magnitude(content) == subarray(content, leadingZeros(content, 0), Len(content))

\* the 32-byte big-endian field that holds a magnitude of at most 32 bytes
zeroPadded(m) == alloc(32 - Len(m), 0) \o m

\* C21: whenever extractSignatureRS returns, each 32-byte half of the result
\* is the big-endian zero-padded value of the corresponding DER INTEGER (r,
\* then s); an INTEGER whose magnitude does not fit in 32 bytes is rejected
\* and never truncated.  (Stated for the signatures whose two INTEGERs are
\* whole, and with the content read as an unsigned magnitude.)
C21_PaddedValueNeverTruncated ==
  (pc = "sigder.decoded" /\ arg.cut = 0) =>
    /\ (Len(magnitude(arg.r)) > 32 \/ Len(magnitude(arg.s)) > 32) => ~mid.ok
    /\ (/\ mid.ok
        /\ Len(magnitude(arg.r)) <= 32
        /\ Len(magnitude(arg.s)) <= 32) =>
         /\ subarray(mid.val, 0, 32) = zeroPadded(magnitude(arg.r))
         /\ subarray(mid.val, 32, 64) = zeroPadded(magnitude(arg.s))

\* C22: extractSignatureRS accepts only the canonical encoding: for every
\* byte string d on which it returns a result,
\* signatureToDER(extractSignatureRS(d)) equals d.
C22_OnlyCanonicalAccepted ==
  pc = "sigder.encoded" => res.ok /\ res.val = arg.der

\* C23: readDERLength accepts only the unique DER encoding of a length:
\* whenever it returns (n, newOffset), the bytes from offset to newOffset
\* are exactly encodeDERLength(n).
C23_UniqueLengthEncoding ==
  (pc = "read.done" /\ res.ok) =>
    subarray(arg.data, arg.offset, res.val[2]) = encodeDERLength(res.val[1]).val

\* C24: every raw public key returned by parsePublicKeyDER or
\* uncompressPublicKey satisfies the RawPublicKey invariant: x < P, y < P,
\* and (x, y) is not the all-zero pair.
C24_RawPublicKeyInvariant ==
  /\ (pc = "der.decoded" /\ res.ok) =>
       /\ xOfRaw(res.val) < P
       /\ yOfRaw(res.val) < P
       /\ res.val # alloc(64, 0)
  /\ (pc = "point.done" /\ res.ok) =>
       /\ xOfRaw(res.val) < P
       /\ yOfRaw(res.val) < P
       /\ res.val # alloc(64, 0)

(***************************************************************************)
(* SpecParseDER: parsePublicKeyDER of the DER of a public key that is cut  *)
(* short or has one byte replaced                                          *)
(***************************************************************************)
\* the DER of the public key (1, 96)
wholePublicKeyDER ==
  publicKeyToDER(bigIntToBuffer(1, 32), bigIntToBuffer(96, 32)).val

\* the offsets of the five tags and of the 0x04 marker, and of the bytes of
\* the EC and the SM2 OID, in the DER of a public key
TagOffsets == {0, 2, 4, 13, 23, 26}

ECOIDOffsets == {o \in 0..(Len(wholePublicKeyDER) - 1) : o >= 6 /\ o < 6 + Len(EC_OID)}

SM2OIDOffsets == {o \in 0..(Len(wholePublicKeyDER) - 1) : o >= 15 /\ o < 15 + Len(SM2_OID)}

ReplacementBytes == {0, 4, 48, 255}

InitParseDER ==
  /\ InitClass
  /\ pc = "pder.input"
  /\ \/ \E keep \in 0..Len(wholePublicKeyDER) :
          arg = [der |-> subarray(wholePublicKeyDER, 0, keep), keep |-> keep,
                 at |-> -1]
     \/ \E at \in 0..(Len(wholePublicKeyDER) - 1), b \in ReplacementBytes :
          /\ b # wholePublicKeyDER[at + 1]
          /\ arg = [der |-> [wholePublicKeyDER EXCEPT ![at + 1] = b],
                    keep |-> Len(wholePublicKeyDER), at |-> at]
  /\ mid = None
  /\ res = None

CallParsePublicKeyDEROfBytes ==
  /\ pc = "pder.input"
  /\ res' = parsePublicKeyDER(arg.der)
  /\ pc' = "pder.done"
  /\ UNCHANGED <<arg, mid, cryptoImpl, lastSet, instance>>

NextParseDER == CallParsePublicKeyDEROfBytes

SpecParseDER == InitParseDER /\ [][NextParseDER]_vars

\* C25: parsePublicKeyDER reports each cause of failure with its own
\* discriminator: an input cut short at any position fails with the length
\* code, a wrong tag or a missing 0x04 marker with the format code, and
\* bytes at either OID position that differ from the EC or SM2 OID with the
\* OID code.
C25_FailureDiscriminators ==
  pc = "pder.done" =>
    /\ arg.keep < Len(wholePublicKeyDER) => res = Err("ERR_FORMAT_LENGTH")
    /\ arg.at \in TagOffsets => res = Err("ERR_FORMAT_INVALID")
    /\ arg.at \in ECOIDOffsets \cup SM2OIDOffsets => res = Err("ERR_FORMAT_OID")

(***************************************************************************)
(* Claim C26, checked under SpecPoint                                      *)
(***************************************************************************)
\* C26: for every 33-byte input c that uncompressPublicKey accepts, the y it
\* returns is below P and has the parity the prefix names (even for 0x02, odd
\* for 0x03), and compressPublicKey of the returned key is c again.
C26_UncompressCompressRoundTrip ==
  /\ (pc = "point.done" /\ res.ok) =>
        /\ yOfRaw(res.val) < P
        /\ yOfRaw(res.val) % 2 = (IF mid.val[1] = 2 THEN 0 ELSE 1)
  /\ pc = "point.recompressed" => res = Ok(mid.val)

\* a compressed key with prefix 0x03 whose x has no point on the curve (so
\* that y comes from the fallback value) has been uncompressed and
\* compressed again
C26_Witness ==
  /\ pc = "point.recompressed"
  /\ Len(arg) = 33
  /\ arg[1] = 3
  /\ ~hasSquareRoot(curveRHS(xOfCompressed(arg)))
  /\ res = Ok(arg)

(***************************************************************************)
(* Claim C27, checked under SpecSecret                                     *)
(***************************************************************************)
\* the offset after the element (tag, length, content) that starts at o
tlvEnd(der, o) ==
  LET r == readDERLength(der, o + 1) IN r.val[2] + r.val[1]

\* a tag with the constructed bit (0x20): SEQUENCE, [1] EXPLICIT
constructedTag(tag) == (tag \div 32) % 2 = 1

\* the elements that start at o end exactly at end, each with a length field
\* that can be read, and so do the elements inside every constructed one
RECURSIVE covers(_, _, _)
covers(der, o, end) ==
  IF o = end THEN TRUE
  ELSE IF o + 1 >= end THEN FALSE
  ELSE LET r == readDERLength(der, o + 1)
       IN  /\ r.ok
           /\ r.val[2] + r.val[1] <= end
           /\ constructedTag(At(der, o)) =>
                 covers(der, r.val[2], r.val[2] + r.val[1])
           /\ covers(der, r.val[2] + r.val[1], end)

\* the offset of the privateKey OCTET STRING of a PKCS#8 structure: after
\* the header of the outer SEQUENCE, the version and the algorithm
privateKeyOctetString(der) ==
  tlvEnd(der, tlvEnd(der, readDERLength(der, 1).val[2]))

\* every length field of a private key DER equals the byte count of the
\* content it covers: the elements tile the whole buffer, and the content
\* of the privateKey OCTET STRING (an ECPrivateKey) is tiled in turn
lengthsConsistent(der) ==
  /\ covers(der, 0, Len(der))
  /\ LET o == privateKeyOctetString(der)
     IN  /\ At(der, o) = ASN1_OCTET_STRING
         /\ covers(der, readDERLength(der, o + 1).val[2], tlvEnd(der, o))

MaxBase == 9

MaxExponent == 6

MaxModulus == 8

InitPow ==
  /\ InitClass
  /\ pc = "pow.input"
  /\ \E base \in (0 - MaxBase)..MaxBase, exponent \in (0 - 1)..MaxExponent,
        modulus \in (0 - 1)..MaxModulus :
       arg = [base |-> base, exponent |-> exponent, modulus |-> modulus]
  /\ mid = None
  /\ res = None

CallPowerMod ==
  /\ pc = "pow.input"
  /\ res' = powerMod(arg.base, arg.exponent, arg.modulus)
  /\ pc' = "pow.done"
  /\ UNCHANGED <<arg, mid, cryptoImpl, lastSet, instance>>

NextPow == CallPowerMod

SpecPow == InitPow /\ [][NextPow]_vars

\* the least non-negative residue of base^exponent modulo modulus, by
\* repeated multiplication (% of TLA+ is never negative)
RECURSIVE residueOfPower(_, _, _)
residueOfPower(base, exponent, modulus) ==
  IF exponent = 0 THEN 1 % modulus
  ELSE (residueOfPower(base, exponent - 1, modulus) * (base % modulus)) % modulus

\* C28: for every integer base (negative values included), every
\* exponent >= 0 and every modulus > 1, powerMod returns the least
\* non-negative residue of base^exponent modulo modulus, a value in
\* [0, modulus); it returns 0 when modulus = 1 and fails when exponent < 0
\* or modulus <= 0.
C28_LeastNonNegativeResidue ==
  pc = "pow.done" =>
    IF arg.exponent < 0 \/ arg.modulus <= 0 THEN ~res.ok
    ELSE IF arg.modulus = 1 THEN res = Ok(0)
    ELSE /\ res.ok
         /\ res.val \in 0..(arg.modulus - 1)
         /\ res.val = residueOfPower(arg.base, arg.exponent, arg.modulus)

(***************************************************************************)
(* SpecStorage: the codec operations on Buffer and Uint8Array objects.  A  *)
(* heap is a sequence of stores, a store being the bytes of one            *)
(* allocation; an object is a view of `length` bytes at `byteOffset` of a  *)
(* store.  After a call the caller writes one byte to the result.          *)
(***************************************************************************)
bufferObject(kind, store, byteOffset, length) ==
  [kind |-> kind, store |-> store, byteOffset |-> byteOffset, length |-> length]

\* the bytes seen through an object
bytesOf(heap, b) ==
  IF b.length = 0 THEN <<>>
  ELSE subarray(heap[b.store], b.byteOffset, b.byteOffset + b.length)

\* a call that threw: the heap is as it was
failed(heap, r) == [heap |-> heap, result |-> r]

\* Buffer.concat, Buffer.from(data), new Uint8Array(data): an object over a
\* new store that holds a copy of the bytes
allocated(heap, kind, bytes) ==
  [heap |-> Append(heap, bytes),
   result |-> Ok(bufferObject(kind, Len(heap) + 1, 0, Len(bytes)))]

\* b.subarray(start, end): a view of the store of b
subarrayOf(b, start, end) ==
  LET first == Min(start, b.length)
      last == Max(first, Min(end, b.length))
  IN  bufferObject(b.kind, b.store, b.byteOffset + first, last - first)

\* return Buffer.isBuffer(data) ? data : Buffer.from(data)
toBuffer(heap, data) ==
  IF data.kind = "Buffer" THEN [heap |-> heap, result |-> Ok(data)]
  ELSE allocated(heap, "Buffer", bytesOf(heap, data))

\* return Buffer.isBuffer(data) ? new Uint8Array(data) : data
toUint8Array(heap, data) ==
  IF data.kind = "Buffer" THEN allocated(heap, "Uint8Array", bytesOf(heap, data))
  ELSE [heap |-> heap, result |-> Ok(data)]

\* return Buffer.isBuffer(template) ? toBuffer(data) : toUint8Array(data)
matchBinaryType(heap, template, data) ==
  IF template.kind = "Buffer" THEN toBuffer(heap, data) ELSE toUint8Array(heap, data)

\* an outputType argument that was not passed
noOutputType == bufferObject("undefined", 0, 0, 0)

\* return outputType ? matchBinaryType(outputType, result) : result
matchOutputType(made, outputType) ==
  IF outputType = noOutputType THEN made
  ELSE matchBinaryType(made.heap, outputType, made.result.val)

\* return matchBinaryType(der, Buffer.concat([x, y]))
parsePublicKeyDEROfObject(heap, der) ==
  LET r == parsePublicKeyDER(bytesOf(heap, der))
  IN  IF ~r.ok THEN failed(heap, r)
      ELSE LET made == allocated(heap, "Buffer", r.val)
           IN  matchBinaryType(made.heap, der, made.result.val)

\* return matchBinaryType(der, der.subarray(offset, offset + length))
extractSecretKeyDOfObject(heap, der) ==
  LET r == extractSecretKeyD(bytesOf(heap, der))
      key == extractSecretKeyDKey(bytesOf(heap, der))
  IN  IF ~r.ok THEN failed(heap, r)
      ELSE matchBinaryType(heap, der,
                           subarrayOf(der, key.val[2], key.val[2] + key.val[1]))

\* return matchBinaryType(x, Buffer.concat([DER_PUBLIC_KEY_PREFIX, uncompressedPoint]))
publicKeyToDEROfObjects(heap, x, y) ==
  LET r == publicKeyToDER(bytesOf(heap, x), bytesOf(heap, y))
  IN  IF ~r.ok THEN failed(heap, r)
      ELSE LET made == allocated(heap, "Buffer", r.val)
           IN  matchBinaryType(made.heap, x, made.result.val)

\* return matchBinaryType(d, Buffer.concat([...]))
secretKeyToDEROfObjects(heap, d, x, y) ==
  LET r == secretKeyToDER(bytesOf(heap, d), bytesOf(heap, x), bytesOf(heap, y))
  IN  IF ~r.ok THEN failed(heap, r)
      ELSE LET made == allocated(heap, "Buffer", r.val)
           IN  matchBinaryType(made.heap, d, made.result.val)

\* if (!Buffer.isBuffer(publicKey)) throw ...;
\* return Buffer.concat([Buffer.from([prefix]), x])
compressPublicKeyOfObject(heap, publicKey) ==
  IF publicKey.kind # "Buffer" THEN failed(heap, Err("ERR_FORMAT_INPUT"))
  ELSE LET r == compressPublicKey(bytesOf(heap, publicKey))
       IN  IF ~r.ok THEN failed(heap, r) ELSE allocated(heap, "Buffer", r.val)

\* if (!Buffer.isBuffer(compressedKey)) throw ...;
\* return Buffer.concat([x, yBuffer])
uncompressPublicKeyOfObject(heap, compressedKey) ==
  IF compressedKey.kind # "Buffer" THEN failed(heap, Err("ERR_FORMAT_INPUT"))
  ELSE LET r == uncompressPublicKey(bytesOf(heap, compressedKey))
       IN  IF ~r.ok THEN failed(heap, r) ELSE allocated(heap, "Buffer", r.val)

\* const result = Buffer.concat([rPadded, sPadded]);
\* return outputType ? matchBinaryType(outputType, result) : result
extractSignatureRSOfObject(heap, derSignature, outputType) ==
  LET r == extractSignatureRS(bytesOf(heap, derSignature))
  IN  IF ~r.ok THEN failed(heap, r)
      ELSE matchOutputType(allocated(heap, "Buffer", r.val), outputType)

\* const result = Buffer.concat([Buffer.from([ASN1.SEQUENCE]), ...]);
\* return outputType ? matchBinaryType(outputType, result) : result
signatureToDEROfObject(heap, rawSignature, outputType) ==
  LET r == signatureToDER(bytesOf(heap, rawSignature))
  IN  IF ~r.ok THEN failed(heap, r)
      ELSE matchOutputType(allocated(heap, "Buffer", r.val), outputType)

BinaryKinds == {"Buffer", "Uint8Array"}

\* the bytes that precede an input in its store
Pads == {0, 2}

\* the result is written at the indexes below MaxWrite and at its last index
MaxWrite == 3

sampleD == <<1>> \o alloc(31, 0)

sampleX == bigIntToBuffer(1, 32)

sampleY == bigIntToBuffer(96, 32)

\* the operations with the bytes of their arguments; the last of each kind
\* of argument is one the operation rejects
StorageCalls ==
  {[op |-> "parsePublicKeyDER", bytes |-> <<wholePublicKeyDER>>],
   [op |-> "parsePublicKeyDER", bytes |-> <<alloc(4, 48)>>],
   [op |-> "extractSecretKeyD", bytes |-> <<secretKeyToDER(sampleD, sampleX, sampleY).val>>],
   [op |-> "extractSecretKeyD", bytes |-> <<wholePublicKeyDER>>],
   [op |-> "publicKeyToDER", bytes |-> <<sampleX, sampleY>>],
   [op |-> "publicKeyToDER", bytes |-> <<sampleX, <<>> >>],
   [op |-> "secretKeyToDER", bytes |-> <<sampleD, sampleX, sampleY>>],
   [op |-> "secretKeyToDER", bytes |-> << <<>>, sampleX, sampleY>>],
   [op |-> "compressPublicKey", bytes |-> <<sampleX \o sampleY>>],
   [op |-> "compressPublicKey", bytes |-> <<sampleX>>],
   [op |-> "uncompressPublicKey", bytes |-> << <<3>> \o sampleX>>],
   [op |-> "uncompressPublicKey", bytes |-> << <<4>> \o sampleX>>],
   [op |-> "extractSignatureRS", bytes |-> << <<48, 6, 2, 1, 1, 2, 1, 1>> >>],
   [op |-> "extractSignatureRS", bytes |-> << <<49, 0>> >>],
   [op |-> "signatureToDER", bytes |-> <<sampleX \o sampleY>>],
   [op |-> "signatureToDER", bytes |-> <<sampleX>>]}

\* an outputType argument: absent, or an empty object of either kind
OutputTypes ==
  {noOutputType} \cup {bufferObject(kind, 0, 0, 0) : kind \in BinaryKinds}

InitStorage ==
  /\ InitClass
  /\ pc = "st.input"
  /\ \E call \in StorageCalls, kind \in BinaryKinds, pad \in Pads,
        outputType \in OutputTypes :
       /\ call.op \notin {"extractSignatureRS", "signatureToDER"}
            => outputType = noOutputType
       /\ arg = [op |-> call.op,
                 inputs |-> [k \in 1..Len(call.bytes) |->
                               bufferObject(kind, k, pad, Len(call.bytes[k]))],
                 bytes |-> call.bytes,
                 outputType |-> outputType]
       /\ mid = [k \in 1..Len(call.bytes) |-> alloc(pad, 0) \o call.bytes[k]]
  /\ res = None

\* the call has returned or thrown: the heap and the result are the new ones
Returned(call) ==
  /\ mid' = call.heap
  /\ res' = call.result
  /\ pc' = "st.called"
  /\ UNCHANGED <<arg, cryptoImpl, lastSet, instance>>

CallParsePublicKeyDEROfObject ==
  /\ pc = "st.input"
  /\ arg.op = "parsePublicKeyDER"
  /\ Returned(parsePublicKeyDEROfObject(mid, arg.inputs[1]))

CallExtractSecretKeyDOfObject ==
  /\ pc = "st.input"
  /\ arg.op = "extractSecretKeyD"
  /\ Returned(extractSecretKeyDOfObject(mid, arg.inputs[1]))

CallPublicKeyToDEROfObjects ==
  /\ pc = "st.input"
  /\ arg.op = "publicKeyToDER"
  /\ Returned(publicKeyToDEROfObjects(mid, arg.inputs[1], arg.inputs[2]))

CallSecretKeyToDEROfObjects ==
  /\ pc = "st.input"
  /\ arg.op = "secretKeyToDER"
  /\ Returned(secretKeyToDEROfObjects(mid, arg.inputs[1], arg.inputs[2], arg.inputs[3]))

CallCompressPublicKeyOfObject ==
  /\ pc = "st.input"
  /\ arg.op = "compressPublicKey"
  /\ Returned(compressPublicKeyOfObject(mid, arg.inputs[1]))

CallUncompressPublicKeyOfObject ==
  /\ pc = "st.input"
  /\ arg.op = "uncompressPublicKey"
  /\ Returned(uncompressPublicKeyOfObject(mid, arg.inputs[1]))

CallExtractSignatureRSOfObject ==
  /\ pc = "st.input"
  /\ arg.op = "extractSignatureRS"
  /\ Returned(extractSignatureRSOfObject(mid, arg.inputs[1], arg.outputType))

CallSignatureToDEROfObject ==
  /\ pc = "st.input"
  /\ arg.op = "signatureToDER"
  /\ Returned(signatureToDEROfObject(mid, arg.inputs[1], arg.outputType))

\* result[i] = b, by the caller
WriteResult ==
  /\ pc = "st.called"
  /\ res.ok
  /\ \E i \in 0..(res.val.length - 1) :
       /\ i < MaxWrite \/ i = res.val.length - 1
       /\ mid' = [mid EXCEPT ![res.val.store][res.val.byteOffset + i + 1] =
                    (@ + 1) % 256]
  /\ pc' = "st.written"
  /\ UNCHANGED <<arg, res, cryptoImpl, lastSet, instance>>

NextStorage ==
  \/ CallParsePublicKeyDEROfObject
  \/ CallExtractSecretKeyDOfObject
  \/ CallPublicKeyToDEROfObjects
  \/ CallSecretKeyToDEROfObjects
  \/ CallCompressPublicKeyOfObject
  \/ CallUncompressPublicKeyOfObject
  \/ CallExtractSignatureRSOfObject
  \/ CallSignatureToDEROfObject
  \/ WriteResult

SpecStorage == InitStorage /\ [][NextStorage]_vars

\* C29: no codec operation modifies its input, and the object each returns
\* shares no storage with an input, so that after the caller has written to
\* a result every input still holds the bytes it held before the call.
C29_NoSharedStorage ==
  pc \in {"st.called", "st.written"} =>
    \A k \in 1..Len(arg.inputs) :
      /\ bytesOf(mid, arg.inputs[k]) = arg.bytes[k]
      /\ res.ok => res.val.store # arg.inputs[k].store

(***************************************************************************)
(* SpecTermination: modularSquareRoot and powerMod one loop iteration at a *)
(* time, for prime and composite moduli.  mid holds the loop variables.    *)
(* The code is sequential and nothing suspends it, so a step that is       *)
(* enabled is taken: weak fairness of the next-step relation.              *)
(***************************************************************************)
MaxRootModulus == 41

\* the calls of modularSquareRoot that reach the search for z
reachesSearch(a, p) ==
  /\ p > 2
  /\ a > 0
  /\ a < p
  /\ powerMod(a, (p - 1) \div 2, p).val = 1
  /\ factorTwos(p - 1, 0)[2] # 1

\* the body of the Tonelli-Shanks loop with m left as it was
tonelliStepKeepM(v, p) ==
  LET i == leastOrder(v.t, 0, v.m, p)
      b == powerMod(v.c, powerMod(2, v.m - i - 1, p - 1).val, p).val
      bb == rem(b * b, p)
  IN  [z |-> v.z, c |-> bb, r |-> rem(v.r * b, p), t |-> rem(v.t * bb, p), m |-> v.m]

\* the body of the Tonelli-Shanks loop after `if (i === m) return null`:
\* b = ...; r = (r * b) % p; t = (t * ((b * b) % p)) % p; c = (b * b) % p; m = i
tonelliStep(v, p) ==
  LET i == leastOrder(v.t, 0, v.m, p)
      b == powerMod(v.c, powerMod(2, v.m - i - 1, p - 1).val, p).val
      bb == rem(b * b, p)
  IN  [z |-> v.z, c |-> bb, r |-> rem(v.r * b, p), t |-> rem(v.t * bb, p), m |-> i]

\* the body of the while loop of powerMod
powerModStep(v, modulus) ==
  [result |-> IF v.exponent % 2 = 1 THEN rem(v.result * v.base, modulus) ELSE v.result,
   base |-> rem(v.base * v.base, modulus),
   exponent |-> v.exponent \div 2]

InitTermination ==
  /\ InitClass
  /\ pc = "term.input"
  /\ \/ \E p \in 2..MaxRootModulus, a \in 0..MaxRootModulus :
          /\ a <= p
          /\ arg = [fn |-> "modularSquareRoot", a |-> a, p |-> p]
     \/ \E base \in (0 - MaxBase)..MaxBase, exponent \in (0 - 1)..MaxExponent,
           modulus \in (0 - 1)..MaxModulus :
          arg = [fn |-> "powerMod", base |-> base, exponent |-> exponent,
                 modulus |-> modulus]
  /\ mid = None
  /\ res = None

\* modularSquareRoot up to `let z = BigInt(2)`, or to a return before it
EnterModularSquareRoot ==
  /\ pc = "term.input"
  /\ arg.fn = "modularSquareRoot"
  /\ IF reachesSearch(arg.a, arg.p)
     THEN /\ mid' = [z |-> 2, c |-> 0, r |-> 0, t |-> 0,
                     m |-> factorTwos(arg.p - 1, 0)[2]]
          /\ pc' = "term.search"
          /\ UNCHANGED res
     ELSE /\ res' = modularSquareRoot(arg.a, arg.p)
          /\ pc' = "term.done"
          /\ UNCHANGED mid
  /\ UNCHANGED <<arg, cryptoImpl, lastSet, instance>>

\* while (powerMod(z, (p - 1) / 2, p) === 1) z++; then c, r, t, m are set
StepSearch ==
  /\ pc = "term.search"
  /\ IF powerMod(mid.z, (arg.p - 1) \div 2, arg.p).val = 1
     THEN /\ mid' = [mid EXCEPT !.z = @ + 1]
          /\ pc' = "term.search"
     ELSE LET q == factorTwos(arg.p - 1, 0)[1]
          IN  /\ mid' = [mid EXCEPT !.c = powerMod(mid.z, q, arg.p).val,
                                    !.r = powerMod(arg.a, (q + 1) \div 2, arg.p).val,
                                    !.t = powerMod(arg.a, q, arg.p).val]
              /\ pc' = "term.loop"
  /\ UNCHANGED <<arg, res, cryptoImpl, lastSet, instance>>

\* one test of `while (t !== 1)` and, if it holds, one iteration
StepTonelli ==
  /\ pc = "term.loop"
  /\ IF mid.t = 1
     THEN /\ res' = Ok(mid.r)
          /\ pc' = "term.done"
          /\ UNCHANGED mid
     ELSE IF leastOrder(mid.t, 0, mid.m, arg.p) = mid.m
     THEN /\ res' = Ok(null)
          /\ pc' = "term.done"
          /\ UNCHANGED mid
     ELSE /\ mid' = tonelliStep(mid, arg.p)
          /\ pc' = "term.loop"
          /\ UNCHANGED res
  /\ UNCHANGED <<arg, cryptoImpl, lastSet, instance>>

\* powerMod up to `let result = BigInt(1); base = base % modulus`, or to a
\* throw or return before it
EnterPowerMod ==
  /\ pc = "term.input"
  /\ arg.fn = "powerMod"
  /\ IF arg.modulus <= 1 \/ arg.exponent < 0
     THEN /\ res' = powerMod(arg.base, arg.exponent, arg.modulus)
          /\ pc' = "term.done"
          /\ UNCHANGED mid
     ELSE /\ mid' = [result |-> 1, base |-> rem(arg.base, arg.modulus),
                     exponent |-> arg.exponent]
          /\ pc' = "term.power"
          /\ UNCHANGED res
  /\ UNCHANGED <<arg, cryptoImpl, lastSet, instance>>

\* one test of `while (exponent > 0)` and, if it holds, one iteration
StepPowerMod ==
  /\ pc = "term.power"
  /\ IF mid.exponent > 0
     THEN /\ mid' = powerModStep(mid, arg.modulus)
          /\ pc' = "term.power"
          /\ UNCHANGED res
     ELSE /\ res' = Ok(mid.result)
          /\ pc' = "term.done"
          /\ UNCHANGED mid
  /\ UNCHANGED <<arg, cryptoImpl, lastSet, instance>>

NextTermination ==
  \/ EnterModularSquareRoot
  \/ StepSearch
  \/ StepTonelli
  \/ EnterPowerMod
  \/ StepPowerMod

SpecTermination ==
  InitTermination /\ [][NextTermination]_vars /\ WF_vars(NextTermination)

\* C30: modularSquareRoot terminates for every modulus p > 2, prime or not,
\* and every a with 0 <= a < p, and powerMod terminates for every
\* exponent >= 0 (every call reaches its return or throw); the search for z
\* never passes p, and every iteration of the Tonelli-Shanks loop makes m
\* smaller.
C30_Terminates ==
  /\ <>(pc = "term.done")
  /\ [](pc = "term.search" => mid.z <= arg.p)
  /\ [][(pc = "term.loop" /\ pc' = "term.loop") => mid'.m < mid.m]_vars

compositeModulus(p) == \E k \in 2..(p - 1) : p % k = 0

\* modularSquareRoot has returned for a composite modulus after at least one
\* iteration of the Tonelli-Shanks loop
C30_Witness ==
  /\ pc = "term.done"
  /\ arg.fn = "modularSquareRoot"
  /\ compositeModulus(arg.p)
  /\ "m" \in DOMAIN mid
  /\ mid.m < factorTwos(arg.p - 1, 0)[2]

====
